---------------------------- MODULE Spec2Model ----------------------------
(***************************************************************************)
(* Cable monitor: the measurement pipeline of Core/Src/calculations.c      *)
(* (calculate_pos and the stages it calls) as a state machine.             *)
(*                                                                         *)
(* Numbers.  Distances, positions and Hall voltages are the C integers.    *)
(* Gamma is a double in the code; it is only ever observed through         *)
(* (int)Gamma (get_angle) and through the comparisons with 15 and -15 in   *)
(* calculate_current, both of which are decided by its integer part, so    *)
(* the model keeps the integer part of Gamma in degrees.  current is a     *)
(* float; the model keeps it as an exact fraction <<numerator,             *)
(* denominator>>.                                                          *)
(*                                                                         *)
(* Floating point.  X_Pos and Y_Pos are doubles truncated to int.  Where   *)
(* the exact value of the double expression is a positive integer k, the   *)
(* rounding of acos/cos/sin decides whether the truncation yields k or     *)
(* k-1 (sin(acos(0.6))*30 is 23.999... on IEEE doubles).  The model keeps  *)
(* both outcomes; libm remembers the outcome per input, because one build  *)
(* evaluates the same expression on the same input to the same value.      *)
(***************************************************************************)
EXTENDS Integers, Sequences, FiniteSets, TLC

(***************************************************************************)
(* Program constants                                                       *)
(***************************************************************************)
FFT_AVG_NUMS == 3
PAD_SPACING == 50
MAX_Y_DISTANCE == 200
MAX_X_DISTANCE == 100
\* CURRENT_FACTOR 0.357 as 357/1000
CURRENT_FACTOR_MILLI == 357

FFT_NO_SIGNAL == 1111
CALC_OUTOF_Y_RANGE == 2222
CALC_OUTOF_X_RANGE == 2333
CALC_OUTOF_ANGLE_RANGE == 2444
CURR_OUTOF_Y_RANGE == 4444
CURR_OUTOF_Angle_RANGE == 4555

\* menu.h: MENU_item_t
MENU_SINGLE == 0
MENU_MULTI == 1
MENU_CABLE == 2
MENU_SUBTASK == 3
MENU_NONE == 4

NOTHING == 1
SINGLE_MEAS == 2
AVERAGE_MEAS == 3
MAX_SUBTASKS == 2
SUB_VALUES == 1
SUB_GRAPHIC == 2
MAX_TABLES == 1
TABLE_ONE_PHASE == 1
MAX_DISTANCE == 200

F_CLK == 21000000
TIM_TOP == 9

\* buzzer.c: the notes C5 to B6; note[i] is element i+1
note ==
  << 523, 554, 587, 622, 659, 698, 740, 784, 831, 880, 932, 988,
     1047, 1109, 1175, 1245, 1319, 1397, 1480, 1568, 1661, 1760, 1866, 1976 >>

\* menu.c: line1 of MENU_entry[i] is element i+1
MENU_entry == << "Average", "Single" >>

MENU_ENTRY_COUNT == 2
TITLE_HIGHT == 45
MENU_HEIGHT == 40
\* BSP_LCD_GetXSize(), BSP_LCD_GetYSize() of the board's 240 x 320 display
LCD_XSize == 240
LCD_YSize == 320

\* measuring.h is not part of the sources at hand; the frame holds ADC_NUMS
\* samples per channel, a power of two (the transform requires it).  The
\* model keeps the loops of split_Array and clear_Buffer and runs them over
\* four samples per channel.
ADC_NUMS == 4

LPAD_Max == 1458
LPAD_Min == 200
RPAD_Max == 1466
RPAD_Min == 200

(***************************************************************************)
(* Bounds of the model                                                     *)
(***************************************************************************)
\* calls on a ready frame are explored while avg_counter <= MaxAvgCounter
MaxAvgCounter == 3
\* pad distances of the solver specification: 0..MaxDist and FFT_NO_SIGNAL
MaxDist == 70
\* averaged magnitudes of the lookup specification: 0..MaxReading
MaxReading == 1500
\* inputs of the current specification: Y_Pos in 0..MaxYPos and Gamma in
\* -MaxAngle..MaxAngle
MaxYPos == 30
MaxAngle == 20
\* frames of the demultiplexer specification: sample i is a*i + b with a in
\* 1..3 and b in 0..MaxOffset
MaxOffset == 40
\* touches are explored while fewer than MaxRegistered transitions were
\* registered
MaxRegistered == 3
\* words from the first accumulator array to the end of the RAM (scaled
\* down): a store at or beyond this word leaves the RAM
RamWords == 20
\* largest pad distance presented next to a no-signal sentinel
MaxTableDist == 1100

\* the polls the record of the main loop counts up to
MaxPolls == 3

(***************************************************************************)
(* Calibration tables.  LPAD_lut.csv and RPAD_lut.csv are not part of the  *)
(* sources at hand; the tables are modelled as the monotonic mapping from  *)
(* magnitude to a positive distance in mm that the design describes        *)
(* (a larger magnitude is a nearer cable).                                 *)
(***************************************************************************)
LPAD_LUT(i) == 1 + (LPAD_Max - LPAD_Min - 1 - i) \div 4

RPAD_LUT(i) == 1 + (RPAD_Max - RPAD_Min - 1 - i) \div 4

(***************************************************************************)
(* Integer helpers                                                         *)
(***************************************************************************)
Abs(n) == IF n < 0 THEN -n ELSE n

\* the largest k in lo..hi with k*k <= n (lo*lo <= n assumed)
RECURSIVE IsqrtBetween(_, _, _)
IsqrtBetween(n, lo, hi) ==
  IF lo >= hi THEN lo
  ELSE LET mid == (lo + hi + 1) \div 2
       IN  IF mid * mid <= n THEN IsqrtBetween(n, mid, hi)
                             ELSE IsqrtBetween(n, lo, mid - 1)

Isqrt(n) == IF n <= 0 THEN 0 ELSE IsqrtBetween(n, 0, 46340)

\* sin(k degrees) * 10^9, k = 0..90 (index k+1); cos(k) = sin(90-k)
SinE9 == <<
  0, 17452406, 34899497, 52335956, 69756474, 87155743, 104528463,
  121869343, 139173101, 156434465, 173648178, 190808995, 207911691,
  224951054, 241921896, 258819045, 275637356, 292371705, 309016994,
  325568154, 342020143, 358367950, 374606593, 390731128, 406736643,
  422618262, 438371147, 453990500, 469471563, 484809620, 500000000,
  515038075, 529919264, 544639035, 559192903, 573576436, 587785252,
  601815023, 615661475, 629320391, 642787610, 656059029, 669130606,
  681998360, 694658370, 707106781, 719339800, 731353702, 743144825,
  754709580, 766044443, 777145961, 788010754, 798635510, 809016994,
  819152044, 829037573, 838670568, 848048096, 857167301, 866025404,
  874619707, 882947593, 891006524, 898794046, 906307787, 913545458,
  920504853, 927183855, 933580426, 939692621, 945518576, 951056516,
  956304756, 961261696, 965925826, 970295726, 974370065, 978147601,
  981627183, 984807753, 987688341, 990268069, 992546152, 994521895,
  996194698, 997564050, 998629535, 999390827, 999847695, 1000000000 >>

\* n * s as the two-limb number <<high, low>> in base 10^5 (no 32-bit overflow)
Mul2(n, s) ==
  LET a == s \div 100000
      b == s % 100000
  IN  << n * a + (n * b) \div 100000, (n * b) % 100000 >>

Gt2(p, q) == p[1] > q[1] \/ (p[1] = q[1] /\ p[2] > q[2])

(***************************************************************************)
(* State                                                                   *)
(***************************************************************************)
VARIABLES
  MEAS_data_ready,      \* frame-complete flag of the acquisition
  LPAD_FFT_avg_array,   \* accumulator slots, sequences of FFT_AVG_NUMS words
  RPAD_FFT_avg_array,
  LHALL_FFT_avg_array,
  RHALL_FFT_avg_array,
  LPAD_FFT_distance,
  RPAD_FFT_distance,
  LHALL_FFT_voltage,
  RHALL_FFT_voltage,
  X_Pos,
  Y_Pos,
  Gamma,                \* integer part of the double, degrees
  current,              \* <<numerator, denominator>>
  avg_counter,
  num_of_samples,
  layout,               \* where the linker put the statics: "adjacent" in
                        \* declaration order, or "apart"
  libm,                 \* rounding outcome of the solver, per input
  pass,                 \* what the last calculate_pos call did
  scene,                \* the tones the frames of this run can carry
  mirror,               \* solver specification: the result for the swapped
                        \* distances
  ADC_samples,          \* the raw frame MEAS_return_data serves
  LPAD_samples,         \* channel sample buffers, sequences of ADC_NUMS
  RPAD_samples,
  LHALL_samples,
  RHALL_samples,
  trace,                \* the <<sample index, buffer index>> copies of the
                        \* last split_Array, in order
  lcd,                  \* the texts MENU_values_act / MENU_visual_act show
  x_circle_old,         \* menu.c: erase position of the drawn cable
  y_circle_old,
  MENU_transition,      \* menu.c: the pending menu item
  item_old,             \* MENU_check_transition: the item touched before
  item_new,             \* MENU_check_transition: the item touched last
  mcall,                \* what the last menu call did and returned
  pc,                   \* pass specification: position inside calculate_pos
  loop,                 \* pass specification: the running loop index
  flag_piezo,           \* buzzer.c: the level the handler sets next
  flag_buzzer,          \* buzzer.c: the status flag_buzzer returns
  tim_prescaler,
  TIM5_CEN,             \* TIM5->CR1, counter enable
  TIM5_UIF,             \* TIM5 update interrupt pending
  PA5,                  \* the piezo pin, TRUE = high
  bpc,                  \* position of main inside a buzzer function
  task,                 \* main: the locals of the main function
  subtask,
  table_cable,
  responsive_counter,
  flag_blue_btn,
  main_x_distance,      \* main's locals x_distance, y_distance, angle and
  main_y_distance,      \* current
  main_angle,
  main_current,
  mlog                  \* what the last iteration of the main loop did

bufVars ==
  << ADC_samples, LPAD_samples, RPAD_samples, LHALL_samples, RHALL_samples,
     trace >>

menuVars ==
  << lcd, x_circle_old, y_circle_old, MENU_transition, item_old, item_new,
     mcall >>

passVars == << pc, loop >>

buzzerVars ==
  << flag_piezo, flag_buzzer, tim_prescaler, TIM5_CEN, TIM5_UIF, PA5, bpc >>

mainVars ==
  << task, subtask, table_cable, responsive_counter, flag_blue_btn,
     main_x_distance, main_y_distance, main_angle, main_current, mlog >>

vars == << MEAS_data_ready, LPAD_FFT_avg_array, RPAD_FFT_avg_array,
           LHALL_FFT_avg_array, RHALL_FFT_avg_array, LPAD_FFT_distance,
           RPAD_FFT_distance, LHALL_FFT_voltage, RHALL_FFT_voltage,
           X_Pos, Y_Pos, Gamma, current, avg_counter, num_of_samples,
           layout, libm, pass, scene, mirror, bufVars, menuVars, passVars,
           buzzerVars, mainVars >>

NoPass ==
  [ ready |-> FALSE, filled |-> FALSE, avg |-> << 0, 0, 0, 0 >>,
    solver |-> "none", geo |-> 0, raw |-> << 0, 0, 0 >>, stages |-> {} ]

NoMirror == [ set |-> FALSE, X |-> 0, Y |-> 0, Gamma |-> 0, ok |-> FALSE ]

\* the pipeline context the stages of one call work on
Ctx ==
  [ LPAD_FFT_avg_array |-> LPAD_FFT_avg_array,
    RPAD_FFT_avg_array |-> RPAD_FFT_avg_array,
    LHALL_FFT_avg_array |-> LHALL_FFT_avg_array,
    RHALL_FFT_avg_array |-> RHALL_FFT_avg_array,
    LPAD_FFT_distance |-> LPAD_FFT_distance,
    RPAD_FFT_distance |-> RPAD_FFT_distance,
    LHALL_FFT_voltage |-> LHALL_FFT_voltage,
    RHALL_FFT_voltage |-> RHALL_FFT_voltage,
    X_Pos |-> X_Pos, Y_Pos |-> Y_Pos, Gamma |-> Gamma, current |-> current,
    avg_counter |-> avg_counter, num_of_samples |-> num_of_samples,
    pass |-> NoPass ]

Ran(c, stage) == [ c EXCEPT !.pass.stages = @ \cup { stage } ]

(***************************************************************************)
(* get_X_Pos, get_Y_Pos, get_angle, get_current                            *)
(***************************************************************************)
get_X_Pos == X_Pos

get_Y_Pos == Y_Pos

get_angle == Gamma

get_current == current

(***************************************************************************)
(* distance_LUT                                                            *)
(***************************************************************************)
distance_LUT(c) ==
  LET l == c.LPAD_FFT_distance
      r == c.RPAD_FFT_distance
      ld == IF l > LPAD_Min /\ l < LPAD_Max THEN LPAD_LUT(l - LPAD_Min)
            ELSE IF l > LPAD_Max THEN 0
            ELSE FFT_NO_SIGNAL
      rd == IF r > RPAD_Min /\ r < RPAD_Max THEN RPAD_LUT(r - RPAD_Min)
            ELSE IF r > RPAD_Max THEN 0
            ELSE FFT_NO_SIGNAL
  IN  Ran([ c EXCEPT !.LPAD_FFT_distance = ld, !.RPAD_FFT_distance = rd ],
          "distance_LUT")

(***************************************************************************)
(* averaging_FFT_semples                                                   *)
(***************************************************************************)
\* sum of slots 0..n-1 of an accumulator array (slot i is element i+1)
RECURSIVE SumSlots(_, _)
SumSlots(a, n) == IF n <= 0 THEN 0 ELSE a[n] + SumSlots(a, n - 1)

\* variant: divides by the capacity of the accumulator, not by the window
averaging_FFT_semples_DivByCapacity(c) ==
  IF c.avg_counter = c.num_of_samples - 1
  THEN LET n == c.num_of_samples
           lp == SumSlots(c.LPAD_FFT_avg_array, n) \div FFT_AVG_NUMS
           rp == SumSlots(c.RPAD_FFT_avg_array, n) \div FFT_AVG_NUMS
           lh == SumSlots(c.LHALL_FFT_avg_array, n) \div FFT_AVG_NUMS
           rh == SumSlots(c.RHALL_FFT_avg_array, n) \div FFT_AVG_NUMS
       IN  distance_LUT(
             [ Ran(c, "average") EXCEPT
                 !.LPAD_FFT_distance = lp, !.RPAD_FFT_distance = rp,
                 !.LHALL_FFT_voltage = lh, !.RHALL_FFT_voltage = rh,
                 !.avg_counter = 0,
                 !.pass.filled = TRUE, !.pass.avg = << lp, rp, lh, rh >> ])
  ELSE [ c EXCEPT !.avg_counter = @ + 1 ]

averaging_FFT_semples(c) ==
  IF c.avg_counter = c.num_of_samples - 1
  THEN LET n == c.num_of_samples
           lp == SumSlots(c.LPAD_FFT_avg_array, n) \div n
           rp == SumSlots(c.RPAD_FFT_avg_array, n) \div n
           lh == SumSlots(c.LHALL_FFT_avg_array, n) \div n
           rh == SumSlots(c.RHALL_FFT_avg_array, n) \div n
       IN  distance_LUT(
             [ Ran(c, "average") EXCEPT
                 !.LPAD_FFT_distance = lp, !.RPAD_FFT_distance = rp,
                 !.LHALL_FFT_voltage = lh, !.RHALL_FFT_voltage = rh,
                 !.avg_counter = 0,
                 !.pass.filled = TRUE, !.pass.avg = << lp, rp, lh, rh >> ])
  ELSE [ c EXCEPT !.avg_counter = @ + 1 ]

(***************************************************************************)
(* split_Array and clear_Buffer.  A frame is the sequence of the 4*ADC_NUMS *)
(* values MEAS_return_data(0..4*ADC_NUMS-1) serves; buffer element j is     *)
(* element j+1 of the sequence.                                            *)
(***************************************************************************)
\* for(i = first; i < 4*ADC_NUMS; i += 4) samples[j++] = MEAS_return_data(i)
RECURSIVE CopyLoop(_, _, _, _, _)
CopyLoop(samples, frame, i, j, log) ==
  IF i < 4 * ADC_NUMS
  THEN CopyLoop([ samples EXCEPT ![j + 1] = frame[i + 1] ], frame, i + 4,
                j + 1, Append(log, << i, j >>))
  ELSE << samples, log >>

\* variant: the two Hall channels are taken from each other's offset
split_Array_SwappedHalls(b, frame) ==
  LET lp == CopyLoop(b.LPAD_samples, frame, 0, 0, << >>)
      rp == CopyLoop(b.RPAD_samples, frame, 1, 0, << >>)
      lh == CopyLoop(b.LHALL_samples, frame, 3, 0, << >>)
      rh == CopyLoop(b.RHALL_samples, frame, 2, 0, << >>)
  IN  [ LPAD_samples |-> lp[1], RPAD_samples |-> rp[1],
        LHALL_samples |-> lh[1], RHALL_samples |-> rh[1],
        trace |-> << lp[2], rp[2], lh[2], rh[2] >> ]

split_Array(b, frame) ==
  LET lp == CopyLoop(b.LPAD_samples, frame, 0, 0, << >>)
      rp == CopyLoop(b.RPAD_samples, frame, 1, 0, << >>)
      lh == CopyLoop(b.LHALL_samples, frame, 2, 0, << >>)
      rh == CopyLoop(b.RHALL_samples, frame, 3, 0, << >>)
  IN  [ LPAD_samples |-> lp[1], RPAD_samples |-> rp[1],
        LHALL_samples |-> lh[1], RHALL_samples |-> rh[1],
        trace |-> << lp[2], rp[2], lh[2], rh[2] >> ]

\* variant: the loop clears one element per round
clear_Buffer_OnePerRound(b) ==
  LET zero(samples) ==
        [ j \in 1..ADC_NUMS |->
            IF j - 1 < ADC_NUMS \div 2 THEN 0 ELSE samples[j] ]
  IN  [ b EXCEPT !.LPAD_samples = zero(@), !.RPAD_samples = zero(@),
                 !.LHALL_samples = zero(@), !.RHALL_samples = zero(@) ]

\* for(i = 0; i < ADC_NUMS/2; i++) clears elements 2*i and 2*i+1
clear_Buffer(b) ==
  LET zero(samples) ==
        [ j \in 1..ADC_NUMS |->
            IF (j - 1) \div 2 < ADC_NUMS \div 2 THEN 0 ELSE samples[j] ]
  IN  [ b EXCEPT !.LPAD_samples = zero(@), !.RPAD_samples = zero(@),
                 !.LHALL_samples = zero(@), !.RHALL_samples = zero(@) ]

\* the channel buffers of the state
Buffers ==
  [ LPAD_samples |-> LPAD_samples, RPAD_samples |-> RPAD_samples,
    LHALL_samples |-> LHALL_samples, RHALL_samples |-> RHALL_samples,
    trace |-> trace ]

\* arm_rfft_fast_f32 and hypot(bin 10, bin 11)*sqrt(2)/ADC_NUMS: the
\* amplitude of the 50 Hz tone in the buffer.  The transform is library
\* code; the model takes the peak of the buffer as the amplitude.
Magnitude(samples) ==
  CHOOSE m \in { samples[j] : j \in 1..ADC_NUMS } :
    \A j \in 1..ADC_NUMS : m >= samples[j]

Tones(b) ==
  << Magnitude(b.LPAD_samples), Magnitude(b.RPAD_samples),
     Magnitude(b.LHALL_samples), Magnitude(b.RHALL_samples) >>

\* a frame that carries the tone <<left pad, right pad, left Hall, right
\* Hall>>: sample 4*j + k belongs to channel k
FrameOf(tone) == [ i \in 1..(4 * ADC_NUMS) |-> tone[((i - 1) % 4) + 1] ]

(***************************************************************************)
(* calculate_FFT.  The four tone magnitudes that arm_rfft_fast_f32 and     *)
(* hypot extract from the frame are the input tone = <<left pad, right     *)
(* pad, left Hall, right Hall>>.  A store at slot avg_counter beyond the   *)
(* array is undefined: with the statics laid out in declaration order      *)
(* (four arrays, then the two distances and the two voltages) it lands in  *)
(* the object that follows, otherwise in memory the model does not track.  *)
(***************************************************************************)
PutWord(c, addr, val) ==
  IF addr < 0 THEN c
  ELSE IF addr < 3  THEN [ c EXCEPT !.LPAD_FFT_avg_array[addr + 1] = val ]
  ELSE IF addr < 6  THEN [ c EXCEPT !.RPAD_FFT_avg_array[addr - 2] = val ]
  ELSE IF addr < 9  THEN [ c EXCEPT !.LHALL_FFT_avg_array[addr - 5] = val ]
  ELSE IF addr < 12 THEN [ c EXCEPT !.RHALL_FFT_avg_array[addr - 8] = val ]
  ELSE IF addr = 12 THEN [ c EXCEPT !.LPAD_FFT_distance = val ]
  ELSE IF addr = 13 THEN [ c EXCEPT !.RPAD_FFT_distance = val ]
  ELSE IF addr = 14 THEN [ c EXCEPT !.LHALL_FFT_voltage = val ]
  ELSE IF addr = 15 THEN [ c EXCEPT !.RHALL_FFT_voltage = val ]
  ELSE c

StoreSlot(c, base, idx, val) ==
  IF idx < FFT_AVG_NUMS \/ layout = "adjacent"
  THEN PutWord(c, base + idx, val)
  ELSE c

calculate_FFT(c, tone) ==
  LET i  == c.avg_counter
      c1 == StoreSlot(c, 0, i, tone[1])
      c2 == StoreSlot(c1, FFT_AVG_NUMS, i, tone[2])
      c3 == StoreSlot(c2, 2 * FFT_AVG_NUMS, i, tone[3])
      c4 == StoreSlot(c3, 3 * FFT_AVG_NUMS, i, tone[4])
  IN  averaging_FFT_semples(Ran(c4, "calculate_FFT"))

(***************************************************************************)
(* calculate_current                                                       *)
(***************************************************************************)
\* variant: the angle is checked before the distance
calculate_current_AngleFirst(c) ==
  LET cur ==
        IF c.Gamma < 15 /\ c.Gamma > -15
        THEN IF c.Y_Pos > 15 /\ c.Y_Pos < 25
             THEN IF c.RHALL_FFT_voltage > c.LHALL_FFT_voltage
                  THEN << c.RHALL_FFT_voltage * CURRENT_FACTOR_MILLI * c.Y_Pos,
                          1000000 >>
                  ELSE << c.LHALL_FFT_voltage * CURRENT_FACTOR_MILLI * c.Y_Pos,
                          1000000 >>
             ELSE << CURR_OUTOF_Y_RANGE, 1 >>
        ELSE << CURR_OUTOF_Angle_RANGE, 1 >>
  IN  Ran([ c EXCEPT !.current = cur ], "calculate_current")

calculate_current(c) ==
  LET cur ==
        IF c.Y_Pos > 15 /\ c.Y_Pos < 25
        THEN IF c.Gamma < 15 /\ c.Gamma > -15
             THEN IF c.RHALL_FFT_voltage > c.LHALL_FFT_voltage
                  THEN << c.RHALL_FFT_voltage * CURRENT_FACTOR_MILLI * c.Y_Pos,
                          1000000 >>
                  ELSE << c.LHALL_FFT_voltage * CURRENT_FACTOR_MILLI * c.Y_Pos,
                          1000000 >>
             ELSE << CURR_OUTOF_Angle_RANGE, 1 >>
        ELSE << CURR_OUTOF_Y_RANGE, 1 >>
  IN  Ran([ c EXCEPT !.current = cur ], "calculate_current")

(***************************************************************************)
(* check_display_bounderies                                                *)
(***************************************************************************)
\* variant: X is checked against the Y limit
check_display_bounderies_WrongLimit(c) ==
  LET x == IF Abs(c.X_Pos) > MAX_Y_DISTANCE THEN CALC_OUTOF_X_RANGE
           ELSE c.X_Pos
      y == IF c.Y_Pos > MAX_Y_DISTANCE THEN CALC_OUTOF_Y_RANGE ELSE c.Y_Pos
  IN  Ran([ c EXCEPT !.X_Pos = x, !.Y_Pos = y ], "check_display_bounderies")

check_display_bounderies(c) ==
  LET x == IF Abs(c.X_Pos) > MAX_X_DISTANCE THEN CALC_OUTOF_X_RANGE
           ELSE c.X_Pos
      y == IF c.Y_Pos > MAX_Y_DISTANCE THEN CALC_OUTOF_Y_RANGE ELSE c.Y_Pos
  IN  Ran([ c EXCEPT !.X_Pos = x, !.Y_Pos = y ], "check_display_bounderies")

(***************************************************************************)
(* calculate_pos: the position solver (law of cosines, case analysis,      *)
(* Gamma and the signs), in exact arithmetic.                              *)
(*   cos_beta  = cos_beta_num  / cos_beta_den                              *)
(*   cos_alpha = cos_alpha_num / cos_alpha_den                             *)
(***************************************************************************)
cos_beta_num(dL, dR) == dL * dL + PAD_SPACING * PAD_SPACING - dR * dR

cos_beta_den(dL, dR) == 2 * dL * PAD_SPACING

cos_alpha_num(dL, dR) == dR * dR - dL * dL + PAD_SPACING * PAD_SPACING

cos_alpha_den(dL, dR) == 2 * dR * PAD_SPACING

\* variant: the lower limit -1 belongs to the range
InArccosRange_Closed(num, den) ==
  IF den > 0 THEN num <= den /\ num >= -den
  ELSE IF den < 0 THEN num >= den /\ num <= -den
  ELSE FALSE

\* num/den <= 1 and num/den > -1 on doubles; a zero divisor gives an
\* infinity or a NaN, and every comparison with those fails one of the two
InArccosRange(num, den) ==
  IF den > 0 THEN num <= den /\ num > -den
  ELSE IF den < 0 THEN num >= den /\ num < -den
  ELSE FALSE

\* variant: the angle is compared with 60 degrees
Acute_Below60(num, den) ==
  (2 * num > den /\ den > 0) \/ (2 * num < den /\ den < 0)

\* acos(num/den) < M_PI/2, that is, num/den > 0
Acute(num, den) == (num > 0 /\ den > 0) \/ (num < 0 /\ den < 0)

\* the geometric case: 1 between the pads, 2 left, 3 right, 4 none
GeoCase(dL, dR) ==
  LET a == Acute(cos_alpha_num(dL, dR), cos_alpha_den(dL, dR))
      b == Acute(cos_beta_num(dL, dR), cos_beta_den(dL, dR))
  IN  IF a /\ b THEN 1 ELSE IF ~a /\ b THEN 2 ELSE IF a /\ ~b THEN 3 ELSE 4

\* floor of sqrt(d^2 - (num/(2S))^2), the exact value of sin(angle)*d
RootFloor(d, num) ==
  LET s2 == 2 * PAD_SPACING
      q  == Abs(num) \div s2
      r  == Abs(num) % s2
      t  == 2 * s2 * q * r + r * r
  IN  Isqrt(d * d - q * q - ((t + s2 * s2 - 1) \div (s2 * s2)))

\* sin(angle)*d is exactly a positive integer
RootTie(d, num) ==
  LET s2 == 2 * PAD_SPACING
      q  == Abs(num) \div s2
      r  == Abs(num) % s2
      t  == 2 * s2 * q * r + r * r
      k  == RootFloor(d, num)
  IN  t % (s2 * s2) = 0 /\ k * k = d * d - q * q - t \div (s2 * s2) /\ k > 0

\* numerator over 2S of the exact value of the double assigned to X_Pos
XNum(dL, dR) ==
  LET half == (PAD_SPACING \div 2) * 2 * PAD_SPACING
      g    == GeoCase(dL, dR)
  IN  IF g = 1 THEN Abs(cos_alpha_num(dL, dR) - half)
      ELSE IF g = 2 THEN half - cos_alpha_num(dL, dR)
      ELSE half - cos_beta_num(dL, dR)

XTie(dL, dR) ==
  XNum(dL, dR) > 0 /\ XNum(dL, dR) % (2 * PAD_SPACING) = 0

YTie(dL, dR) ==
  IF GeoCase(dL, dR) = 3 THEN RootTie(dL, cos_beta_num(dL, dR))
  ELSE RootTie(dR, cos_alpha_num(dL, dR))

YFloor(dL, dR) ==
  IF GeoCase(dL, dR) = 3 THEN RootFloor(dL, cos_beta_num(dL, dR))
  ELSE RootFloor(dR, cos_alpha_num(dL, dR))

\* (int) of a double whose exact value has the given floor
Truncate(floor, tie, below) == IF tie /\ below THEN floor - 1 ELSE floor

\* integer part of (M_PI/2 - atan2(y, x)) * RAD_TO_DEGREE for x, y >= 0.
\* RAD_TO_DEGREE is a little less than 180/pi, so an exact 45 or 90
\* degrees comes out as 44 or 89.
AheadAngle(x, y) ==
  IF y = 0 THEN 89
  ELSE Cardinality({ k \in 1..89 :
         Gt2(Mul2(x, SinE9[90 - k + 1]), Mul2(y, SinE9[k + 1])) })

\* variant: one no-signal sentinel is enough to skip the solver
SolverRuns_BothNeeded(dL, dR) == dL # FFT_NO_SIGNAL /\ dR # FFT_NO_SIGNAL

SolverRuns(dL, dR) == dL # FFT_NO_SIGNAL \/ dR # FFT_NO_SIGNAL

SolverInRange(dL, dR) ==
  /\ InArccosRange(cos_alpha_num(dL, dR), cos_alpha_den(dL, dR))
  /\ InArccosRange(cos_beta_num(dL, dR), cos_beta_den(dL, dR))

\* alpha < beta, that is, cos_alpha > cos_beta (both divisors positive,
\* the common factor 2*PAD_SPACING cancelled)
AlphaBelowBeta(dL, dR) ==
  cos_alpha_num(dL, dR) * dL > cos_beta_num(dL, dR) * dR

\* lines 189-238; r = <<X rounded below, Y rounded below>>
\* variant: the current is estimated after a failed range check as well
calculate_pos_solve_CurrentOnFailure(c, r) ==
  LET dL == c.LPAD_FFT_distance
      dR == c.RPAD_FFT_distance
  IN
  IF ~SolverRuns(dL, dR) THEN [ c EXCEPT !.pass.solver = "skipped" ]
  ELSE IF ~SolverInRange(dL, dR)
  THEN calculate_current([ Ran(c, "solver") EXCEPT !.pass.solver = "range" ])
  ELSE
    LET g  == GeoCase(dL, dR)
        x  == IF g = 4 THEN c.X_Pos
              ELSE Truncate(XNum(dL, dR) \div (2 * PAD_SPACING),
                            XTie(dL, dR), r[1])
        y  == IF g = 4 THEN c.Y_Pos
              ELSE Truncate(YFloor(dL, dR), YTie(dL, dR), r[2])
        ga == AheadAngle(x, y)
        c1 == IF AlphaBelowBeta(dL, dR)
              THEN [ c EXCEPT !.X_Pos = -x, !.Y_Pos = y, !.Gamma = ga ]
              ELSE [ c EXCEPT !.X_Pos = x, !.Y_Pos = y, !.Gamma = -ga ]
        c2 == [ Ran(c1, "solver") EXCEPT
                  !.pass.solver = "ok", !.pass.geo = g,
                  !.pass.raw = << c1.X_Pos, c1.Y_Pos, c1.Gamma >> ]
    IN  check_display_bounderies(calculate_current(c2))

calculate_pos_solve(c, r) ==
  LET dL == c.LPAD_FFT_distance
      dR == c.RPAD_FFT_distance
  IN
  IF ~SolverRuns(dL, dR) THEN [ c EXCEPT !.pass.solver = "skipped" ]
  ELSE IF ~SolverInRange(dL, dR)
  THEN [ Ran(c, "solver") EXCEPT !.pass.solver = "range" ]
  ELSE
    LET g  == GeoCase(dL, dR)
        x  == IF g = 4 THEN c.X_Pos
              ELSE Truncate(XNum(dL, dR) \div (2 * PAD_SPACING),
                            XTie(dL, dR), r[1])
        y  == IF g = 4 THEN c.Y_Pos
              ELSE Truncate(YFloor(dL, dR), YTie(dL, dR), r[2])
        ga == AheadAngle(x, y)
        c1 == IF AlphaBelowBeta(dL, dR)
              THEN [ c EXCEPT !.X_Pos = -x, !.Y_Pos = y, !.Gamma = ga ]
              ELSE [ c EXCEPT !.X_Pos = x, !.Y_Pos = y, !.Gamma = -ga ]
        c2 == [ Ran(c1, "solver") EXCEPT
                  !.pass.solver = "ok", !.pass.geo = g,
                  !.pass.raw = << c1.X_Pos, c1.Y_Pos, c1.Gamma >> ]
    IN  check_display_bounderies(calculate_current(c2))

\* the rounding outcomes the solver can meet on these distances
Roundings(dL, dR) ==
  IF SolverRuns(dL, dR) /\ SolverInRange(dL, dR) /\ GeoCase(dL, dR) # 4
  THEN { << bx, by >> : bx \in (IF XTie(dL, dR) THEN BOOLEAN ELSE { FALSE }),
                        by \in (IF YTie(dL, dR) THEN BOOLEAN ELSE { FALSE }) }
  ELSE { << FALSE, FALSE >> }

\* variant: the error codes are not set as default values
calculate_pos_ready_NoDefaults(c, tone, r) ==
  LET c1 == [ c EXCEPT !.pass.ready = TRUE,
                       !.pass.stages = { "split_Array", "clear_Buffer" } ]
  IN  calculate_pos_solve(calculate_FFT(c1, tone), r)

\* variant: the solver only runs when the averaging window was completed
calculate_pos_ready_SolveOnFill(c, tone, r) ==
  LET c1 == [ c EXCEPT !.X_Pos = CALC_OUTOF_X_RANGE,
                       !.Y_Pos = CALC_OUTOF_Y_RANGE,
                       !.Gamma = CALC_OUTOF_ANGLE_RANGE,
                       !.pass.ready = TRUE,
                       !.pass.stages = { "split_Array", "clear_Buffer" } ]
      cf == calculate_FFT(c1, tone)
  IN  IF cf.pass.filled THEN calculate_pos_solve(cf, r) ELSE cf

\* lines 179-239, the frame being ready; tone is what calculate_FFT extracts
\* from the buffers split_Array filled, which clear_Buffer zeroes afterwards
calculate_pos_ready(c, tone, r) ==
  LET c1 == [ c EXCEPT !.X_Pos = CALC_OUTOF_X_RANGE,
                       !.Y_Pos = CALC_OUTOF_Y_RANGE,
                       !.Gamma = CALC_OUTOF_ANGLE_RANGE,
                       !.pass.ready = TRUE,
                       !.pass.stages = { "split_Array", "clear_Buffer" } ]
  IN  calculate_pos_solve(calculate_FFT(c1, tone), r)

(***************************************************************************)
(* Inputs of the pipeline specification                                    *)
(***************************************************************************)
Windows == 1..FFT_AVG_NUMS

\* tone magnitudes <<left pad, right pad, left Hall, right Hall>> of a frame
ToneCentre   == << 1333, 1341, 100, 50 >>
ToneOffset   == << 1341, 1309, 50, 100 >>
ToneNoSignal == << 150, 150, 0, 0 >>
ToneLeftOnly == << 1333, 100, 100, 50 >>
ToneAtMax    == << 1458, 1500, 100, 50 >>
ToneFarX     == << 861, 1029, 50, 100 >>
ToneEdge     == << 650, 658, 100, 50 >>
ToneBeyond   == << 646, 654, 100, 50 >>

\* a run draws the tones of its frames from one of these sets
Scenes == { { ToneCentre, ToneNoSignal }, { ToneCentre, ToneAtMax },
            { ToneCentre, ToneFarX }, { ToneOffset, ToneLeftOnly } }

(***************************************************************************)
(* Initial state: the statics are zero-initialised                         *)
(***************************************************************************)
NoSamples == [ j \in 1..ADC_NUMS |-> 0 ]

BufStatics ==
  /\ ADC_samples = [ i \in 1..(4 * ADC_NUMS) |-> 0 ]
  /\ LPAD_samples = NoSamples
  /\ RPAD_samples = NoSamples
  /\ LHALL_samples = NoSamples
  /\ RHALL_samples = NoSamples
  /\ trace = << >>

NoText ==
  [ shown |-> {}, text_x_distance |-> "", text_y_distance |-> "",
    text_abs_distance |-> "", text_angle |-> "", text_current |-> "",
    text_position |-> "", visual_current |-> "", title |-> "" ]

NoCall ==
  [ op |-> "none", item |-> MENU_NONE, registered |-> 0, delivered |-> 0,
    detected |-> FALSE, touched |-> << MENU_NONE, MENU_NONE >> ]

MenuStatics ==
  /\ lcd = NoText
  /\ x_circle_old = 20
  /\ y_circle_old = 20
  /\ MENU_transition = MENU_NONE
  /\ item_old = MENU_NONE
  /\ item_new = MENU_NONE
  /\ mcall = NoCall

\* buzzer.c after BUZZER_init: the timer is stopped and PA5 is low
BuzzerStatics ==
  /\ flag_piezo = FALSE
  /\ flag_buzzer = FALSE
  /\ tim_prescaler = 2100
  /\ TIM5_CEN = FALSE
  /\ TIM5_UIF = FALSE
  /\ PA5 = FALSE
  /\ bpc = "main"

\* what the last iteration of the main loop did: the item delivered, the
\* label of the menu entry it confirmed, the window size calculate_pos was
\* called with (0: not called), the index BUZZER_set_note was called with
\* (-1: not called), and the polls that delivered MENU_NONE since the last
\* title or screen touch (polls), since the last one the loop handled in a
\* measurement mode (handled)
NoIteration ==
  [ item |-> MENU_NONE, confirmed |-> "", called |-> 0, set_note |-> -1,
    polls |-> 0, handled |-> 0 ]

\* the locals of main before the loop (lines 543-560)
MainStatics ==
  /\ task = NOTHING
  /\ subtask = SUB_GRAPHIC
  /\ table_cable = TABLE_ONE_PHASE
  /\ responsive_counter = 0
  /\ flag_blue_btn = FALSE
  /\ main_x_distance = 0
  /\ main_y_distance = 0
  /\ main_angle = 0
  /\ main_current = << 0, 1 >>
  /\ mlog = NoIteration

PassStatics ==
  /\ pc = "idle"
  /\ loop = 0

Statics ==
  /\ LPAD_FFT_avg_array = << 0, 0, 0 >>
  /\ RPAD_FFT_avg_array = << 0, 0, 0 >>
  /\ LHALL_FFT_avg_array = << 0, 0, 0 >>
  /\ RHALL_FFT_avg_array = << 0, 0, 0 >>
  /\ LHALL_FFT_voltage = 0
  /\ RHALL_FFT_voltage = 0
  /\ X_Pos = 0
  /\ Y_Pos = 0
  /\ Gamma = 0
  /\ current = << 0, 1 >>
  /\ avg_counter = 0
  /\ num_of_samples = 0
  /\ MEAS_data_ready = FALSE
  /\ libm = [ k \in {} |-> << FALSE, FALSE >> ]
  /\ pass = NoPass
  /\ mirror = NoMirror
  /\ BufStatics
  /\ MenuStatics
  /\ PassStatics
  /\ BuzzerStatics
  /\ MainStatics

Init ==
  /\ Statics
  /\ layout \in { "adjacent", "apart" }
  /\ scene \in Scenes
  /\ LPAD_FFT_distance = 0
  /\ RPAD_FFT_distance = 0

\* the context c becomes the state
Publish(c) ==
  /\ LPAD_FFT_avg_array' = c.LPAD_FFT_avg_array
  /\ RPAD_FFT_avg_array' = c.RPAD_FFT_avg_array
  /\ LHALL_FFT_avg_array' = c.LHALL_FFT_avg_array
  /\ RHALL_FFT_avg_array' = c.RHALL_FFT_avg_array
  /\ LPAD_FFT_distance' = c.LPAD_FFT_distance
  /\ RPAD_FFT_distance' = c.RPAD_FFT_distance
  /\ LHALL_FFT_voltage' = c.LHALL_FFT_voltage
  /\ RHALL_FFT_voltage' = c.RHALL_FFT_voltage
  /\ X_Pos' = c.X_Pos
  /\ Y_Pos' = c.Y_Pos
  /\ Gamma' = c.Gamma
  /\ current' = c.current
  /\ avg_counter' = c.avg_counter
  /\ num_of_samples' = c.num_of_samples
  /\ pass' = c.pass

\* the solver's rounding on distances <<dL, dR>>: the remembered outcome,
\* or a new one that is remembered from now on
Rounded(dL, dR, r) ==
  IF << dL, dR >> \in DOMAIN libm
  THEN r = libm[<< dL, dR >>] /\ UNCHANGED libm
  ELSE /\ r \in Roundings(dL, dR)
       /\ libm' = IF Cardinality(Roundings(dL, dR)) > 1
                  THEN libm @@ (<< dL, dR >> :> r)
                  ELSE libm

(***************************************************************************)
(* Actions of the pipeline specification                                   *)
(***************************************************************************)
\* the acquisition (measuring.c, not among the sources) completes a frame
MEAS_frame_complete ==
  /\ ~MEAS_data_ready
  /\ MEAS_data_ready' = TRUE
  /\ UNCHANGED << LPAD_FFT_avg_array, RPAD_FFT_avg_array,
                  LHALL_FFT_avg_array, RHALL_FFT_avg_array,
                  LPAD_FFT_distance, RPAD_FFT_distance, LHALL_FFT_voltage,
                  RHALL_FFT_voltage, X_Pos, Y_Pos, Gamma, current,
                  avg_counter, num_of_samples, layout, buzzerVars, mainVars, libm, pass, scene,
                  mirror, bufVars, menuVars, passVars >>

\* the caller restarts the acquisition (main, after every calculate_pos)
reset_sample_counter ==
  /\ MEAS_data_ready
  /\ MEAS_data_ready' = FALSE
  /\ UNCHANGED << LPAD_FFT_avg_array, RPAD_FFT_avg_array,
                  LHALL_FFT_avg_array, RHALL_FFT_avg_array,
                  LPAD_FFT_distance, RPAD_FFT_distance, LHALL_FFT_voltage,
                  RHALL_FFT_voltage, X_Pos, Y_Pos, Gamma, current,
                  avg_counter, num_of_samples, layout, buzzerVars, mainVars, libm, pass, scene,
                  mirror, bufVars, menuVars, passVars >>

\* variant: the pipeline runs without looking at the frame-ready flag
calculate_pos_idle_Unguarded(fft_avg_num) ==
  /\ ~MEAS_data_ready
  /\ avg_counter <= MaxAvgCounter
  /\ \E tone \in scene :
       LET c0 == [ Ctx EXCEPT !.num_of_samples = fft_avg_num ]
       IN  Publish(calculate_pos_ready(c0, tone, << FALSE, FALSE >>))
  /\ UNCHANGED << MEAS_data_ready, layout, buzzerVars, mainVars, libm, scene, mirror, bufVars,
                  menuVars, passVars >>

\* calculate_pos(fft_avg_num) while no frame is ready
calculate_pos_idle(fft_avg_num) ==
  /\ ~MEAS_data_ready
  /\ Publish([ Ctx EXCEPT !.num_of_samples = fft_avg_num ])
  /\ UNCHANGED << MEAS_data_ready, layout, buzzerVars, mainVars, libm, scene, mirror, bufVars,
                  menuVars, passVars >>

\* the buffers b become the state
PublishBuffers(b) ==
  /\ LPAD_samples' = b.LPAD_samples
  /\ RPAD_samples' = b.RPAD_samples
  /\ LHALL_samples' = b.LHALL_samples
  /\ RHALL_samples' = b.RHALL_samples
  /\ trace' = b.trace

\* calculate_pos(fft_avg_num) on a ready frame with the given samples
calculate_pos(fft_avg_num, frame) ==
  /\ MEAS_data_ready
  /\ avg_counter <= MaxAvgCounter
  /\ LET b    == split_Array(Buffers, frame)
         tone == Tones(b)
         c0   == [ Ctx EXCEPT !.num_of_samples = fft_avg_num ]
         cf   == calculate_FFT(c0, tone)
     IN  /\ \E r \in Roundings(cf.LPAD_FFT_distance, cf.RPAD_FFT_distance) :
              /\ Rounded(cf.LPAD_FFT_distance, cf.RPAD_FFT_distance, r)
              /\ Publish(calculate_pos_ready(c0, tone, r))
         /\ PublishBuffers(clear_Buffer(b))
  /\ UNCHANGED << MEAS_data_ready, layout, buzzerVars, mainVars, scene, mirror, ADC_samples,
                  menuVars, passVars >>

Next ==
  \/ MEAS_frame_complete
  \/ reset_sample_counter
  \/ \E w \in Windows : calculate_pos_idle(w)
  \/ \E w \in Windows, tone \in scene : calculate_pos(w, FrameOf(tone))

Spec == Init /\ [][Next]_vars

(***************************************************************************)
(* Solver specification: the solver applied to every pair of pad           *)
(* distances of Dists, and then to the mirrored pair.                      *)
(***************************************************************************)
Dists == 0..MaxDist \cup { FFT_NO_SIGNAL }

SolveInit ==
  /\ Statics
  /\ layout = "apart"
  /\ scene = {}
  /\ LPAD_FFT_distance \in Dists
  /\ RPAD_FFT_distance \in Dists

\* lines 181-183 and 189-238 on the distances of the state
solve_step ==
  /\ pass.solver = "none"
  /\ LET c0 == [ Ctx EXCEPT !.X_Pos = CALC_OUTOF_X_RANGE,
                            !.Y_Pos = CALC_OUTOF_Y_RANGE,
                            !.Gamma = CALC_OUTOF_ANGLE_RANGE,
                            !.pass.ready = TRUE ]
     IN  \E r \in Roundings(LPAD_FFT_distance, RPAD_FFT_distance) :
           /\ Rounded(LPAD_FFT_distance, RPAD_FFT_distance, r)
           /\ Publish(calculate_pos_solve(c0, r))
  /\ UNCHANGED << MEAS_data_ready, layout, buzzerVars, mainVars, scene, mirror, bufVars, menuVars,
                  passVars >>

\* keep the result and present the mirrored distances
mirror_step ==
  /\ pass.solver # "none"
  /\ ~mirror.set
  /\ mirror' = [ set |-> TRUE, X |-> X_Pos, Y |-> Y_Pos, Gamma |-> Gamma,
                 ok |-> pass.solver = "ok" ]
  /\ LPAD_FFT_distance' = RPAD_FFT_distance
  /\ RPAD_FFT_distance' = LPAD_FFT_distance
  /\ X_Pos' = 0
  /\ Y_Pos' = 0
  /\ Gamma' = 0
  /\ current' = << 0, 1 >>
  /\ pass' = NoPass
  /\ UNCHANGED << MEAS_data_ready, LPAD_FFT_avg_array, RPAD_FFT_avg_array,
                  LHALL_FFT_avg_array, RHALL_FFT_avg_array,
                  LHALL_FFT_voltage, RHALL_FFT_voltage, avg_counter,
                  num_of_samples, layout, buzzerVars, mainVars, libm, scene, bufVars, menuVars,
                  passVars >>

SolveNext == solve_step \/ mirror_step

SpecSolve == SolveInit /\ [][SolveNext]_vars

(***************************************************************************)
(* Sentinel specification: the solver applied to one no-signal sentinel    *)
(* next to every distance 0..MaxTableDist, on either pad, and to two       *)
(* sentinels.                                                              *)
(***************************************************************************)
SentinelInit ==
  /\ Statics
  /\ layout = "apart"
  /\ scene = {}
  /\ \E d \in 0..MaxTableDist \cup { FFT_NO_SIGNAL } :
       \/ LPAD_FFT_distance = FFT_NO_SIGNAL /\ RPAD_FFT_distance = d
       \/ LPAD_FFT_distance = d /\ RPAD_FFT_distance = FFT_NO_SIGNAL

SentinelNext == solve_step

SpecSentinel == SentinelInit /\ [][SentinelNext]_vars

(***************************************************************************)
(* Lookup specification: distance_LUT applied to every averaged magnitude  *)
(* 0..MaxReading, the same on both pads.                                   *)
(***************************************************************************)
LutInit ==
  /\ Statics
  /\ layout = "apart"
  /\ scene = {}
  /\ LPAD_FFT_distance \in 0..MaxReading
  /\ RPAD_FFT_distance = LPAD_FFT_distance

lut_step ==
  /\ pass.stages = {}
  /\ Publish(distance_LUT(
       [ Ctx EXCEPT !.pass.avg = << LPAD_FFT_distance, RPAD_FFT_distance,
                                    LHALL_FFT_voltage, RHALL_FFT_voltage >> ]))
  /\ UNCHANGED << MEAS_data_ready, layout, buzzerVars, mainVars, libm, scene, mirror, bufVars,
                  menuVars, passVars >>

LutNext == lut_step

SpecLUT == LutInit /\ [][LutNext]_vars

(***************************************************************************)
(* Current specification: calculate_current applied to every Y_Pos of      *)
(* 0..MaxYPos, every Gamma of -MaxAngle..MaxAngle and every pair of Hall   *)
(* voltages of HallLevels.                                                 *)
(***************************************************************************)
HallLevels == { 0, 50, 100 }

CurrentInit ==
  /\ LPAD_FFT_avg_array = << 0, 0, 0 >>
  /\ RPAD_FFT_avg_array = << 0, 0, 0 >>
  /\ LHALL_FFT_avg_array = << 0, 0, 0 >>
  /\ RHALL_FFT_avg_array = << 0, 0, 0 >>
  /\ LPAD_FFT_distance = 0
  /\ RPAD_FFT_distance = 0
  /\ LHALL_FFT_voltage \in HallLevels
  /\ RHALL_FFT_voltage \in HallLevels
  /\ X_Pos = 0
  /\ Y_Pos \in 0..MaxYPos
  /\ Gamma \in -MaxAngle..MaxAngle
  /\ current = << 0, 1 >>
  /\ avg_counter = 0
  /\ num_of_samples = 0
  /\ MEAS_data_ready = FALSE
  /\ libm = [ k \in {} |-> << FALSE, FALSE >> ]
  /\ pass = NoPass
  /\ mirror = NoMirror
  /\ layout = "apart"
  /\ scene = {}
  /\ BufStatics
  /\ MenuStatics
  /\ PassStatics
  /\ BuzzerStatics
  /\ MainStatics

current_step ==
  /\ pass.stages = {}
  /\ Publish(calculate_current(Ctx))
  /\ UNCHANGED << MEAS_data_ready, layout, buzzerVars, mainVars, libm, scene, mirror, bufVars,
                  menuVars, passVars >>

CurrentNext == current_step

SpecCurrent == CurrentInit /\ [][CurrentNext]_vars

(***************************************************************************)
(* menu.c: the texts MENU_values_act and MENU_visual_act format            *)
(***************************************************************************)
\* snprintf(buf, size, ...) keeps at most size-1 characters
Take(str, n) == IF Len(str) > n THEN SubSeq(str, 1, n) ELSE str

RECURSIVE Pad(_, _)
Pad(str, width) == IF Len(str) >= width THEN str ELSE Pad(" " \o str, width)

\* snprintf(buf, 5, "%4d", n)
Format4d(n) == Take(Pad(ToString(n), 4), 4)

\* "%.1f" of the fraction cur: the nearest number of tenths
Format1f(cur) ==
  LET t == (20 * cur[1] + cur[2]) \div (2 * cur[2])
  IN  ToString(t \div 10) \o "." \o ToString(t % 10)

\* (int)hypot(a, b)
Hypot(a, b) == Isqrt(a * a + b * b)

\* variant: the absolute distance only looks at the X error code
MENU_values_act_DistanceChecksX(x_distance, y_distance, angle, cur) ==
  [ lcd EXCEPT
      !.shown = @ \cup { "values" },
      !.text_x_distance = IF x_distance = CALC_OUTOF_X_RANGE
                          THEN Take("NaNs", 5) ELSE Format4d(x_distance),
      !.text_y_distance = IF y_distance = CALC_OUTOF_Y_RANGE
                          THEN Take("NaNs", 5) ELSE Format4d(y_distance),
      !.text_abs_distance =
          IF x_distance = CALC_OUTOF_X_RANGE
          THEN Take("NaNs", 5) ELSE Format4d(Hypot(y_distance, x_distance)),
      !.text_angle = IF angle = CALC_OUTOF_ANGLE_RANGE
                     THEN Take("NaNs", 5) ELSE Format4d(angle),
      !.text_current =
          IF cur = << CURR_OUTOF_Y_RANGE, 1 >>
               \/ cur = << CURR_OUTOF_Angle_RANGE, 1 >>
          THEN Take("NaNs", 5) ELSE Take(" " \o Format1f(cur), 6) ]

MENU_values_act(x_distance, y_distance, angle, cur) ==
  [ lcd EXCEPT
      !.shown = @ \cup { "values" },
      !.text_x_distance = IF x_distance = CALC_OUTOF_X_RANGE
                          THEN Take("NaNs", 5) ELSE Format4d(x_distance),
      !.text_y_distance = IF y_distance = CALC_OUTOF_Y_RANGE
                          THEN Take("NaNs", 5) ELSE Format4d(y_distance),
      !.text_abs_distance =
          IF x_distance = CALC_OUTOF_X_RANGE \/ y_distance = CALC_OUTOF_Y_RANGE
          THEN Take("NaNs", 5) ELSE Format4d(Hypot(y_distance, x_distance)),
      !.text_angle = IF angle = CALC_OUTOF_ANGLE_RANGE
                     THEN Take("NaNs", 5) ELSE Format4d(angle),
      !.text_current =
          IF cur = << CURR_OUTOF_Y_RANGE, 1 >>
               \/ cur = << CURR_OUTOF_Angle_RANGE, 1 >>
          THEN Take("NaNs", 5) ELSE Take(" " \o Format1f(cur), 6) ]

\* the new texts and the new erase position <<lcd, x_circle, y_circle>>
MENU_visual_act(x_distance, y_distance, cur) ==
  IF x_distance # CALC_OUTOF_X_RANGE /\ y_distance # CALC_OUTOF_Y_RANGE
  THEN << [ lcd EXCEPT
              !.shown = @ \cup { "visual" },
              !.text_position =
                  Take(Format4d(Hypot(x_distance, y_distance)) \o " mm", 7),
              !.visual_current =
                  IF cur # << CURR_OUTOF_Y_RANGE, 1 >>
                       /\ cur # << CURR_OUTOF_Angle_RANGE, 1 >>
                  THEN Take(" " \o Format1f(cur) \o " A", 8)
                  ELSE Take("NaNs A", 7) ],
          (120 + x_distance) % 65536,
          (220 - y_distance) % 65536 >>
  ELSE << [ lcd EXCEPT
              !.shown = @ \cup { "visual" },
              !.text_position = Take("NaNs mm", 8),
              !.visual_current = Take("NaNs A", 7) ],
          x_circle_old, y_circle_old >>

(***************************************************************************)
(* Display specification: the two display functions applied to the values  *)
(* main fetches with get_X_Pos, get_Y_Pos, get_angle and get_current.      *)
(***************************************************************************)
ShownX == { -100, -7, 0, 100, CALC_OUTOF_X_RANGE }

ShownY == { 0, 19, 200, CALC_OUTOF_Y_RANGE }

ShownAngle == { -89, 0, 16, CALC_OUTOF_ANGLE_RANGE }

ShownCurrent ==
  { << 0, 1 >>, << 714000, 1000000 >>, << CURR_OUTOF_Y_RANGE, 1 >>,
    << CURR_OUTOF_Angle_RANGE, 1 >> }

MenuInit ==
  /\ LPAD_FFT_avg_array = << 0, 0, 0 >>
  /\ RPAD_FFT_avg_array = << 0, 0, 0 >>
  /\ LHALL_FFT_avg_array = << 0, 0, 0 >>
  /\ RHALL_FFT_avg_array = << 0, 0, 0 >>
  /\ LPAD_FFT_distance = 0
  /\ RPAD_FFT_distance = 0
  /\ LHALL_FFT_voltage = 0
  /\ RHALL_FFT_voltage = 0
  /\ X_Pos \in ShownX
  /\ Y_Pos \in ShownY
  /\ Gamma \in ShownAngle
  /\ current \in ShownCurrent
  /\ avg_counter = 0
  /\ num_of_samples = 0
  /\ MEAS_data_ready = FALSE
  /\ libm = [ k \in {} |-> << FALSE, FALSE >> ]
  /\ pass = NoPass
  /\ mirror = NoMirror
  /\ layout = "apart"
  /\ scene = {}
  /\ BufStatics
  /\ MenuStatics
  /\ PassStatics
  /\ BuzzerStatics
  /\ MainStatics

\* main, subtask SUB_VALUES
values_act_step ==
  /\ "values" \notin lcd.shown
  /\ lcd' = MENU_values_act(get_X_Pos, get_Y_Pos, get_angle, get_current)
  /\ UNCHANGED << MEAS_data_ready, LPAD_FFT_avg_array, RPAD_FFT_avg_array,
                  LHALL_FFT_avg_array, RHALL_FFT_avg_array,
                  LPAD_FFT_distance, RPAD_FFT_distance, LHALL_FFT_voltage,
                  RHALL_FFT_voltage, X_Pos, Y_Pos, Gamma, current,
                  avg_counter, num_of_samples, layout, buzzerVars, mainVars, libm, pass, scene,
                  mirror, bufVars, x_circle_old, y_circle_old,
                  MENU_transition, item_old, item_new, mcall, passVars >>

\* main, subtask SUB_GRAPHIC
visual_act_step ==
  /\ "visual" \notin lcd.shown
  /\ LET v == MENU_visual_act(get_X_Pos, get_Y_Pos, get_current)
     IN  /\ lcd' = v[1]
         /\ x_circle_old' = v[2]
         /\ y_circle_old' = v[3]
  /\ UNCHANGED << MEAS_data_ready, LPAD_FFT_avg_array, RPAD_FFT_avg_array,
                  LHALL_FFT_avg_array, RHALL_FFT_avg_array,
                  LPAD_FFT_distance, RPAD_FFT_distance, LHALL_FFT_voltage,
                  RHALL_FFT_voltage, X_Pos, Y_Pos, Gamma, current,
                  avg_counter, num_of_samples, layout, buzzerVars, mainVars, libm, pass, scene,
                  mirror, bufVars, MENU_transition, item_old, item_new,
                  mcall, passVars >>

MenuNext == values_act_step \/ visual_act_step

SpecMenu == MenuInit /\ [][MenuNext]_vars

(***************************************************************************)
(* Demultiplexer specification: split_Array, then clear_Buffer, applied to *)
(* frames whose samples all differ.                                        *)
(***************************************************************************)
Ramp(a, b) == [ i \in 1..(4 * ADC_NUMS) |-> a * (i - 1) + b ]

SplitInit ==
  /\ LPAD_FFT_avg_array = << 0, 0, 0 >>
  /\ RPAD_FFT_avg_array = << 0, 0, 0 >>
  /\ LHALL_FFT_avg_array = << 0, 0, 0 >>
  /\ RHALL_FFT_avg_array = << 0, 0, 0 >>
  /\ LPAD_FFT_distance = 0
  /\ RPAD_FFT_distance = 0
  /\ LHALL_FFT_voltage = 0
  /\ RHALL_FFT_voltage = 0
  /\ X_Pos = 0
  /\ Y_Pos = 0
  /\ Gamma = 0
  /\ current = << 0, 1 >>
  /\ avg_counter = 0
  /\ num_of_samples = 0
  /\ MEAS_data_ready = TRUE
  /\ libm = [ k \in {} |-> << FALSE, FALSE >> ]
  /\ pass = NoPass
  /\ mirror = NoMirror
  /\ layout = "apart"
  /\ scene = {}
  /\ ADC_samples \in { Ramp(a, b) : a \in 1..3, b \in 0..MaxOffset }
  /\ LPAD_samples = NoSamples
  /\ RPAD_samples = NoSamples
  /\ LHALL_samples = NoSamples
  /\ RHALL_samples = NoSamples
  /\ trace = << >>
  /\ MenuStatics
  /\ PassStatics
  /\ BuzzerStatics
  /\ MainStatics

\* line 185
split_step ==
  /\ pc = "idle"
  /\ pc' = "split_Array"
  /\ PublishBuffers(split_Array(Buffers, ADC_samples))
  /\ UNCHANGED << MEAS_data_ready, LPAD_FFT_avg_array, RPAD_FFT_avg_array,
                  LHALL_FFT_avg_array, RHALL_FFT_avg_array,
                  LPAD_FFT_distance, RPAD_FFT_distance, LHALL_FFT_voltage,
                  RHALL_FFT_voltage, X_Pos, Y_Pos, Gamma, current,
                  avg_counter, num_of_samples, layout, buzzerVars, mainVars, libm, pass, scene,
                  mirror, ADC_samples, menuVars, loop >>

\* line 187
clear_step ==
  /\ pc = "split_Array"
  /\ pc' = "clear_Buffer"
  /\ PublishBuffers(clear_Buffer(Buffers))
  /\ UNCHANGED << MEAS_data_ready, LPAD_FFT_avg_array, RPAD_FFT_avg_array,
                  LHALL_FFT_avg_array, RHALL_FFT_avg_array,
                  LPAD_FFT_distance, RPAD_FFT_distance, LHALL_FFT_voltage,
                  RHALL_FFT_voltage, X_Pos, Y_Pos, Gamma, current,
                  avg_counter, num_of_samples, layout, buzzerVars, mainVars, libm, pass, scene,
                  mirror, ADC_samples, menuVars, loop >>

SplitNext == split_step \/ clear_step

SpecSplit == SplitInit /\ [][SplitNext]_vars

(***************************************************************************)
(* menu.c: MENU_check_transition and MENU_get_transition, as main polls    *)
(* them.  A touch is what BSP_TS_GetState reports (with the axis           *)
(* inversions of the board revision already applied).                      *)
(***************************************************************************)
MENU_Y == LCD_YSize - MENU_HEIGHT

NoTouch == [ TouchDetected |-> FALSE, X |-> 0, Y |-> 0 ]

Touches ==
  { NoTouch }
    \cup { [ TouchDetected |-> TRUE, X |-> x, Y |-> y ] :
             x \in { 0, 119, 120, 239 },
             y \in { 0, 1, 44, 45, 280, 281, 319 } }

\* the item a detected touch selects (lines 404-424)
TouchedItem(TS_State) ==
  IF MENU_Y < TS_State.Y /\ MENU_Y + MENU_HEIGHT > TS_State.Y
  THEN LET item == TS_State.X \div (LCD_XSize \div MENU_ENTRY_COUNT)
       IN  IF 0 > item \/ MENU_ENTRY_COUNT <= item THEN MENU_NONE ELSE item
  ELSE IF 0 < TS_State.Y /\ TITLE_HIGHT > TS_State.Y THEN MENU_CABLE
  ELSE MENU_SUBTASK

\* variant: a pending transition does not block the next one
MENU_check_transition_IgnoresPending(TS_State) ==
  /\ mcall.registered < MaxRegistered
  /\ LET seen == [ mcall EXCEPT
                    !.op = "check",
                    !.detected = TS_State.TouchDetected,
                    !.touched = IF TS_State.TouchDetected
                                THEN << @[2], TouchedItem(TS_State) >>
                                ELSE @ ]
     IN
     IF TS_State.TouchDetected /\ TRUE
     THEN LET new == TouchedItem(TS_State)
              old == item_new
          IN  /\ item_old' = old
              /\ IF new = old
                 THEN /\ item_new' = MENU_NONE
                      /\ MENU_transition' = old
                      /\ mcall' = [ seen EXCEPT
                                      !.registered =
                                        IF old # MENU_NONE THEN @ + 1 ELSE @ ]
                 ELSE /\ item_new' = new
                      /\ MENU_transition' = MENU_transition
                      /\ mcall' = seen
     ELSE /\ mcall' = seen
          /\ UNCHANGED << item_old, item_new, MENU_transition >>
  /\ UNCHANGED << MEAS_data_ready, LPAD_FFT_avg_array, RPAD_FFT_avg_array,
                  LHALL_FFT_avg_array, RHALL_FFT_avg_array,
                  LPAD_FFT_distance, RPAD_FFT_distance, LHALL_FFT_voltage,
                  RHALL_FFT_voltage, X_Pos, Y_Pos, Gamma, current,
                  avg_counter, num_of_samples, layout, buzzerVars, mainVars, libm, pass, scene,
                  mirror, bufVars, lcd, x_circle_old, y_circle_old,
                  passVars >>

MENU_check_transition(TS_State) ==
  /\ mcall.registered < MaxRegistered
  /\ LET seen == [ mcall EXCEPT
                    !.op = "check",
                    !.detected = TS_State.TouchDetected,
                    !.touched = IF TS_State.TouchDetected
                                THEN << @[2], TouchedItem(TS_State) >>
                                ELSE @ ]
     IN
     IF TS_State.TouchDetected /\ MENU_NONE = MENU_transition
     THEN LET new == TouchedItem(TS_State)
              old == item_new
          IN  /\ item_old' = old
              /\ IF new = old
                 THEN /\ item_new' = MENU_NONE
                      /\ MENU_transition' = old
                      /\ mcall' = [ seen EXCEPT
                                      !.registered =
                                        IF old # MENU_NONE THEN @ + 1 ELSE @ ]
                 ELSE /\ item_new' = new
                      /\ MENU_transition' = MENU_transition
                      /\ mcall' = seen
     ELSE /\ mcall' = seen
          /\ UNCHANGED << item_old, item_new, MENU_transition >>
  /\ UNCHANGED << MEAS_data_ready, LPAD_FFT_avg_array, RPAD_FFT_avg_array,
                  LHALL_FFT_avg_array, RHALL_FFT_avg_array,
                  LPAD_FFT_distance, RPAD_FFT_distance, LHALL_FFT_voltage,
                  RHALL_FFT_voltage, X_Pos, Y_Pos, Gamma, current,
                  avg_counter, num_of_samples, layout, buzzerVars, mainVars, libm, pass, scene,
                  mirror, bufVars, lcd, x_circle_old, y_circle_old,
                  passVars >>

\* variant: the flag is not cleared
MENU_get_transition_NoClear ==
  /\ mcall' = [ mcall EXCEPT
                  !.op = "get", !.item = MENU_transition,
                  !.delivered = IF MENU_transition # MENU_NONE
                                THEN @ + 1 ELSE @ ]
  /\ MENU_transition' = MENU_transition
  /\ mcall.delivered < MaxRegistered
  /\ UNCHANGED << MEAS_data_ready, LPAD_FFT_avg_array, RPAD_FFT_avg_array,
                  LHALL_FFT_avg_array, RHALL_FFT_avg_array,
                  LPAD_FFT_distance, RPAD_FFT_distance, LHALL_FFT_voltage,
                  RHALL_FFT_voltage, X_Pos, Y_Pos, Gamma, current,
                  avg_counter, num_of_samples, layout, buzzerVars, mainVars, libm, pass, scene,
                  mirror, bufVars, lcd, x_circle_old, y_circle_old,
                  item_old, item_new, passVars >>

MENU_get_transition ==
  /\ mcall' = [ mcall EXCEPT
                  !.op = "get", !.item = MENU_transition,
                  !.delivered = IF MENU_transition # MENU_NONE
                                THEN @ + 1 ELSE @ ]
  /\ MENU_transition' = MENU_NONE
  /\ UNCHANGED << MEAS_data_ready, LPAD_FFT_avg_array, RPAD_FFT_avg_array,
                  LHALL_FFT_avg_array, RHALL_FFT_avg_array,
                  LPAD_FFT_distance, RPAD_FFT_distance, LHALL_FFT_voltage,
                  RHALL_FFT_voltage, X_Pos, Y_Pos, Gamma, current,
                  avg_counter, num_of_samples, layout, buzzerVars, mainVars, libm, pass, scene,
                  mirror, bufVars, lcd, x_circle_old, y_circle_old,
                  item_old, item_new, passVars >>

TouchInit ==
  /\ Statics
  /\ layout = "apart"
  /\ scene = {}
  /\ LPAD_FFT_distance = 0
  /\ RPAD_FFT_distance = 0

TouchNext ==
  \/ \E TS_State \in Touches : MENU_check_transition(TS_State)
  \/ MENU_get_transition

SpecTouch == TouchInit /\ [][TouchNext]_vars

(***************************************************************************)
(* One calculate_pos call step by step: pc is the stage the call is in,    *)
(* loop the counter of the stage's loop.  The caller is main: it calls     *)
(* with a window size, and restarts the acquisition after the call.        *)
(***************************************************************************)
\* the four stores of calculate_FFT at slot avg_counter (lines 299-308)
StoreTones(c, tone) ==
  LET i  == c.avg_counter
      c1 == StoreSlot(c, 0, i, tone[1])
      c2 == StoreSlot(c1, FFT_AVG_NUMS, i, tone[2])
      c3 == StoreSlot(c2, 2 * FFT_AVG_NUMS, i, tone[3])
  IN  StoreSlot(c3, 3 * FFT_AVG_NUMS, i, tone[4])

\* a store at slot idx beyond the accumulator arrays is undefined; once its
\* address is outside the RAM the processor takes a fault and the call is
\* never resumed
StoreFaults(idx) == 3 * FFT_AVG_NUMS + idx >= RamWords

\* the context of the running call
PassCtx == [ Ctx EXCEPT !.pass = pass ]

PassInit ==
  /\ Statics
  /\ layout \in { "adjacent", "apart" }
  /\ scene \in { { ToneCentre }, { ToneAtMax } }
  /\ LPAD_FFT_distance = 0
  /\ RPAD_FFT_distance = 0

\* the acquisition (measuring.c, not among the sources) completes a frame
pass_frame(tone) ==
  /\ pc = "idle"
  /\ ~MEAS_data_ready
  /\ MEAS_data_ready' = TRUE
  /\ ADC_samples' = FrameOf(tone)
  /\ UNCHANGED << LPAD_FFT_avg_array, RPAD_FFT_avg_array,
                  LHALL_FFT_avg_array, RHALL_FFT_avg_array,
                  LPAD_FFT_distance, RPAD_FFT_distance, LHALL_FFT_voltage,
                  RHALL_FFT_voltage, X_Pos, Y_Pos, Gamma, current,
                  avg_counter, num_of_samples, layout, buzzerVars, mainVars, libm, pass, scene,
                  mirror, LPAD_samples, RPAD_samples, LHALL_samples,
                  RHALL_samples, trace, menuVars, pc, loop >>

\* lines 168-183: the call is entered
pass_call(fft_avg_num) ==
  /\ pc = "idle"
  /\ num_of_samples' = fft_avg_num
  /\ loop' = 0
  /\ IF MEAS_data_ready
     THEN /\ X_Pos' = CALC_OUTOF_X_RANGE
          /\ Y_Pos' = CALC_OUTOF_Y_RANGE
          /\ Gamma' = CALC_OUTOF_ANGLE_RANGE
          /\ pass' = [ NoPass EXCEPT !.ready = TRUE ]
          /\ pc' = "split_Array"
     ELSE /\ pass' = NoPass
          /\ pc' = "done"
          /\ UNCHANGED << X_Pos, Y_Pos, Gamma >>
  /\ UNCHANGED << MEAS_data_ready, LPAD_FFT_avg_array, RPAD_FFT_avg_array,
                  LHALL_FFT_avg_array, RHALL_FFT_avg_array,
                  LPAD_FFT_distance, RPAD_FFT_distance, LHALL_FFT_voltage,
                  RHALL_FFT_voltage, current, avg_counter, layout, buzzerVars, mainVars, libm,
                  scene, mirror, ADC_samples, LPAD_samples, RPAD_samples,
                  LHALL_samples, RHALL_samples, trace, menuVars >>

\* split_Array, one round of its loops per step: round loop of the four
\* loops copies raw sample i to element j of its channel's buffer
pass_split ==
  /\ pc = "split_Array"
  /\ IF loop < 4 * ADC_NUMS
     THEN LET k == loop \div ADC_NUMS
              j == loop % ADC_NUMS
              i == k + 4 * j
              put(n, samples) ==
                IF k = n THEN [ samples EXCEPT ![j + 1] = ADC_samples[i + 1] ]
                ELSE samples
          IN  /\ LPAD_samples' = put(0, LPAD_samples)
              /\ RPAD_samples' = put(1, RPAD_samples)
              /\ LHALL_samples' = put(2, LHALL_samples)
              /\ RHALL_samples' = put(3, RHALL_samples)
              /\ loop' = loop + 1
              /\ pass' = pass
              /\ pc' = pc
     ELSE /\ pc' = "calculate_FFT"
          /\ loop' = 0
          /\ pass' = Ran(PassCtx, "split_Array").pass
          /\ UNCHANGED << LPAD_samples, RPAD_samples, LHALL_samples,
                          RHALL_samples >>
  /\ UNCHANGED << MEAS_data_ready, LPAD_FFT_avg_array, RPAD_FFT_avg_array,
                  LHALL_FFT_avg_array, RHALL_FFT_avg_array,
                  LPAD_FFT_distance, RPAD_FFT_distance, LHALL_FFT_voltage,
                  RHALL_FFT_voltage, X_Pos, Y_Pos, Gamma, current,
                  avg_counter, num_of_samples, layout, buzzerVars, mainVars, libm, scene, mirror,
                  ADC_samples, trace, menuVars >>

\* calculate_FFT up to the branch of averaging_FFT_semples (lines 293-330)
pass_fft ==
  /\ pc = "calculate_FFT"
  /\ LET c4 == Ran(StoreTones(PassCtx, Tones(Buffers)), "calculate_FFT")
     IN  IF StoreFaults(avg_counter)
         THEN /\ Publish(c4)
              /\ pc' = "fault"
              /\ loop' = loop
         ELSE IF c4.avg_counter = c4.num_of_samples - 1
         THEN /\ Publish([ c4 EXCEPT !.LPAD_FFT_distance = 0,
                                     !.RPAD_FFT_distance = 0,
                                     !.LHALL_FFT_voltage = 0,
                                     !.RHALL_FFT_voltage = 0 ])
              /\ pc' = "averaging"
              /\ loop' = 0
         ELSE /\ Publish([ c4 EXCEPT !.avg_counter = @ + 1 ])
              /\ pc' = "clear_Buffer"
              /\ loop' = 0
  /\ UNCHANGED << MEAS_data_ready, layout, buzzerVars, mainVars, libm, scene, mirror, ADC_samples,
                  LPAD_samples, RPAD_samples, LHALL_samples, RHALL_samples,
                  trace, menuVars >>

\* the loop of averaging_FFT_semples, one round per step, then the division
\* and distance_LUT (lines 329-343)
pass_average ==
  /\ pc = "averaging"
  /\ IF loop < num_of_samples
     THEN /\ Publish([ PassCtx EXCEPT
                         !.LPAD_FFT_distance = @ + LPAD_FFT_avg_array[loop + 1],
                         !.RPAD_FFT_distance = @ + RPAD_FFT_avg_array[loop + 1],
                         !.LHALL_FFT_voltage = @ + LHALL_FFT_avg_array[loop + 1],
                         !.RHALL_FFT_voltage = @ + RHALL_FFT_avg_array[loop + 1] ])
          /\ loop' = loop + 1
          /\ pc' = pc
     ELSE LET lp == LPAD_FFT_distance \div num_of_samples
              rp == RPAD_FFT_distance \div num_of_samples
              lh == LHALL_FFT_voltage \div num_of_samples
              rh == RHALL_FFT_voltage \div num_of_samples
          IN  /\ Publish(distance_LUT(
                   [ Ran(PassCtx, "average") EXCEPT
                       !.LPAD_FFT_distance = lp, !.RPAD_FFT_distance = rp,
                       !.LHALL_FFT_voltage = lh, !.RHALL_FFT_voltage = rh,
                       !.avg_counter = 0,
                       !.pass.filled = TRUE,
                       !.pass.avg = << lp, rp, lh, rh >> ]))
              /\ loop' = 0
              /\ pc' = "clear_Buffer"
  /\ UNCHANGED << MEAS_data_ready, layout, buzzerVars, mainVars, libm, scene, mirror, ADC_samples,
                  LPAD_samples, RPAD_samples, LHALL_samples, RHALL_samples,
                  trace, menuVars >>

\* clear_Buffer, one round of its loop per step
pass_clear ==
  /\ pc = "clear_Buffer"
  /\ IF loop < ADC_NUMS \div 2
     THEN LET zero(samples) ==
                [ samples EXCEPT ![2 * loop + 1] = 0, ![2 * loop + 2] = 0 ]
          IN  /\ LPAD_samples' = zero(LPAD_samples)
              /\ RPAD_samples' = zero(RPAD_samples)
              /\ LHALL_samples' = zero(LHALL_samples)
              /\ RHALL_samples' = zero(RHALL_samples)
              /\ loop' = loop + 1
              /\ pass' = pass
              /\ pc' = pc
     ELSE /\ pc' = "solve"
          /\ loop' = 0
          /\ pass' = Ran(PassCtx, "clear_Buffer").pass
          /\ UNCHANGED << LPAD_samples, RPAD_samples, LHALL_samples,
                          RHALL_samples >>
  /\ UNCHANGED << MEAS_data_ready, LPAD_FFT_avg_array, RPAD_FFT_avg_array,
                  LHALL_FFT_avg_array, RHALL_FFT_avg_array,
                  LPAD_FFT_distance, RPAD_FFT_distance, LHALL_FFT_voltage,
                  RHALL_FFT_voltage, X_Pos, Y_Pos, Gamma, current,
                  avg_counter, num_of_samples, layout, buzzerVars, mainVars, libm, scene, mirror,
                  ADC_samples, trace, menuVars >>

\* lines 189-238: the solver, calculate_current, check_display_bounderies,
\* and the return
pass_solve ==
  /\ pc = "solve"
  /\ \E r \in Roundings(LPAD_FFT_distance, RPAD_FFT_distance) :
       /\ Rounded(LPAD_FFT_distance, RPAD_FFT_distance, r)
       /\ \E c \in { calculate_pos_solve(PassCtx, r) } : Publish(c)
  /\ pc' = "done"
  /\ loop' = 0
  /\ UNCHANGED << MEAS_data_ready, layout, buzzerVars, mainVars, scene, mirror, ADC_samples,
                  LPAD_samples, RPAD_samples, LHALL_samples, RHALL_samples,
                  trace, menuVars >>

\* main, after the call: reset_sample_counter restarts the acquisition
pass_return ==
  /\ pc = "done"
  /\ pc' = "idle"
  /\ MEAS_data_ready' = FALSE
  /\ UNCHANGED << LPAD_FFT_avg_array, RPAD_FFT_avg_array,
                  LHALL_FFT_avg_array, RHALL_FFT_avg_array,
                  LPAD_FFT_distance, RPAD_FFT_distance, LHALL_FFT_voltage,
                  RHALL_FFT_voltage, X_Pos, Y_Pos, Gamma, current,
                  avg_counter, num_of_samples, layout, buzzerVars, mainVars, libm, pass, scene,
                  mirror, ADC_samples, LPAD_samples, RPAD_samples,
                  LHALL_samples, RHALL_samples, trace, menuVars, loop >>

\* the steps the processor takes inside a call
PassRun == pass_split \/ pass_fft \/ pass_average \/ pass_clear \/ pass_solve

PassNext ==
  \/ \E tone \in scene : pass_frame(tone)
  \/ \E w \in Windows : pass_call(w)
  \/ PassRun
  \/ pass_return

\* the stages in which the processor executes the call
RunStages ==
  { "split_Array", "calculate_FFT", "averaging", "clear_Buffer", "solve" }

\* the call advances: every step of PassRun changes << pc, loop >>, and one
\* is possible in every stage of RunStages
PassAdvance ==
  /\ pc \in RunStages
  /\ pc' \in RunStages \cup { "done", "fault" }
  /\ loop' \in 0..(4 * ADC_NUMS)
  /\ << pc, loop >>' # << pc, loop >>

\* the processor keeps executing a call that is under way; after a fault it
\* stays in the fault handler
SpecPass == PassInit /\ [][PassNext]_vars /\ WF_<< pc, loop >>(PassAdvance)

\* frames keep arriving and main keeps calling: the acquisition completes
\* a frame whenever the loop is between two calls, main calls again after
\* every return, and the processor keeps executing a call under way
SpecPassFair ==
  /\ SpecPass
  /\ SF_vars(\E tone \in scene : pass_frame(tone))
  /\ WF_vars(\E w \in Windows : pass_call(w))
  /\ WF_vars(pass_return)

\* a call is under way
Running == pc \notin { "idle", "done" }

(***************************************************************************)
(* buzzer.c.  BUZZER_turn_on and BUZZER_turn_off run in main, statement by *)
(* statement; TIM5 raises its update interrupt when the enabled counter    *)
(* overflows, and TIM5_IRQHandler runs once the interrupt is taken.  The   *)
(* counter keeps its value while stopped, so the first overflow can follow *)
(* the enable at once, and an interrupt raised before the counter was      *)
(* stopped can be taken after the statements that follow.                  *)
(***************************************************************************)
\* the prescaler BUZZER_set_note computes for note[set_note]
NotePrescaler(set_note) ==
  F_CLK \div ((note[set_note + 1] * (TIM_TOP + 1)) \div 2)

\* TIM5->CR1 |= TIM_CR1_CEN
BUZZER_turn_on_enable ==
  /\ bpc = "main"
  /\ TIM5_CEN' = TRUE
  /\ bpc' = "turn_on"
  /\ UNCHANGED << MEAS_data_ready, LPAD_FFT_avg_array, RPAD_FFT_avg_array,
                  LHALL_FFT_avg_array, RHALL_FFT_avg_array,
                  LPAD_FFT_distance, RPAD_FFT_distance, LHALL_FFT_voltage,
                  RHALL_FFT_voltage, X_Pos, Y_Pos, Gamma, current,
                  avg_counter, num_of_samples, layout, libm, pass, scene,
                  mirror, bufVars, menuVars, passVars, flag_piezo,
                  flag_buzzer, tim_prescaler, TIM5_UIF, PA5, mainVars >>

\* flag_buzzer = true
BUZZER_turn_on_flag ==
  /\ bpc = "turn_on"
  /\ flag_buzzer' = TRUE
  /\ bpc' = "main"
  /\ UNCHANGED << MEAS_data_ready, LPAD_FFT_avg_array, RPAD_FFT_avg_array,
                  LHALL_FFT_avg_array, RHALL_FFT_avg_array,
                  LPAD_FFT_distance, RPAD_FFT_distance, LHALL_FFT_voltage,
                  RHALL_FFT_voltage, X_Pos, Y_Pos, Gamma, current,
                  avg_counter, num_of_samples, layout, libm, pass, scene,
                  mirror, bufVars, menuVars, passVars, flag_piezo,
                  tim_prescaler, TIM5_CEN, TIM5_UIF, PA5, mainVars >>

\* TIM5->CR1 &= ~TIM_CR1_CEN
BUZZER_turn_off_disable ==
  /\ bpc = "main"
  /\ TIM5_CEN' = FALSE
  /\ bpc' = "turn_off"
  /\ UNCHANGED << MEAS_data_ready, LPAD_FFT_avg_array, RPAD_FFT_avg_array,
                  LHALL_FFT_avg_array, RHALL_FFT_avg_array,
                  LPAD_FFT_distance, RPAD_FFT_distance, LHALL_FFT_voltage,
                  RHALL_FFT_voltage, X_Pos, Y_Pos, Gamma, current,
                  avg_counter, num_of_samples, layout, libm, pass, scene,
                  mirror, bufVars, menuVars, passVars, flag_piezo,
                  flag_buzzer, tim_prescaler, TIM5_UIF, PA5, mainVars >>

\* GPIOA->BSRR = GPIO_BSRR_BR5
BUZZER_turn_off_pin ==
  /\ bpc = "turn_off"
  /\ PA5' = FALSE
  /\ bpc' = "turn_off_low"
  /\ UNCHANGED << MEAS_data_ready, LPAD_FFT_avg_array, RPAD_FFT_avg_array,
                  LHALL_FFT_avg_array, RHALL_FFT_avg_array,
                  LPAD_FFT_distance, RPAD_FFT_distance, LHALL_FFT_voltage,
                  RHALL_FFT_voltage, X_Pos, Y_Pos, Gamma, current,
                  avg_counter, num_of_samples, layout, libm, pass, scene,
                  mirror, bufVars, menuVars, passVars, flag_piezo,
                  flag_buzzer, tim_prescaler, TIM5_CEN, TIM5_UIF, mainVars >>

\* flag_buzzer = false
BUZZER_turn_off_flag ==
  /\ bpc = "turn_off_low"
  /\ flag_buzzer' = FALSE
  /\ bpc' = "main"
  /\ UNCHANGED << MEAS_data_ready, LPAD_FFT_avg_array, RPAD_FFT_avg_array,
                  LHALL_FFT_avg_array, RHALL_FFT_avg_array,
                  LPAD_FFT_distance, RPAD_FFT_distance, LHALL_FFT_voltage,
                  RHALL_FFT_voltage, X_Pos, Y_Pos, Gamma, current,
                  avg_counter, num_of_samples, layout, libm, pass, scene,
                  mirror, bufVars, menuVars, passVars, flag_piezo,
                  tim_prescaler, TIM5_CEN, TIM5_UIF, PA5, mainVars >>

BUZZER_set_note(set_note) ==
  /\ bpc = "main"
  /\ tim_prescaler' = NotePrescaler(set_note)
  /\ UNCHANGED << MEAS_data_ready, LPAD_FFT_avg_array, RPAD_FFT_avg_array,
                  LHALL_FFT_avg_array, RHALL_FFT_avg_array,
                  LPAD_FFT_distance, RPAD_FFT_distance, LHALL_FFT_voltage,
                  RHALL_FFT_voltage, X_Pos, Y_Pos, Gamma, current,
                  avg_counter, num_of_samples, layout, libm, pass, scene,
                  mirror, bufVars, menuVars, passVars, flag_piezo,
                  flag_buzzer, TIM5_CEN, TIM5_UIF, PA5, bpc, mainVars >>

\* the enabled counter overflows: the update interrupt becomes pending
TIM5_update ==
  /\ TIM5_CEN
  /\ ~TIM5_UIF
  /\ TIM5_UIF' = TRUE
  /\ UNCHANGED << MEAS_data_ready, LPAD_FFT_avg_array, RPAD_FFT_avg_array,
                  LHALL_FFT_avg_array, RHALL_FFT_avg_array,
                  LPAD_FFT_distance, RPAD_FFT_distance, LHALL_FFT_voltage,
                  RHALL_FFT_voltage, X_Pos, Y_Pos, Gamma, current,
                  avg_counter, num_of_samples, layout, libm, pass, scene,
                  mirror, bufVars, menuVars, passVars, flag_piezo,
                  flag_buzzer, tim_prescaler, TIM5_CEN, PA5, bpc, mainVars >>

TIM5_IRQHandler ==
  /\ TIM5_UIF
  /\ TIM5_UIF' = FALSE
  /\ PA5' = flag_piezo
  /\ flag_piezo' = ~flag_piezo
  /\ UNCHANGED << MEAS_data_ready, LPAD_FFT_avg_array, RPAD_FFT_avg_array,
                  LHALL_FFT_avg_array, RHALL_FFT_avg_array,
                  LPAD_FFT_distance, RPAD_FFT_distance, LHALL_FFT_voltage,
                  RHALL_FFT_voltage, X_Pos, Y_Pos, Gamma, current,
                  avg_counter, num_of_samples, layout, libm, pass, scene,
                  mirror, bufVars, menuVars, passVars, flag_buzzer,
                  tim_prescaler, TIM5_CEN, bpc, mainVars >>

BuzzerInit ==
  /\ Statics
  /\ layout = "apart"
  /\ scene = {}
  /\ LPAD_FFT_distance = 0
  /\ RPAD_FFT_distance = 0

BuzzerNext ==
  \/ BUZZER_turn_on_enable
  \/ BUZZER_turn_on_flag
  \/ BUZZER_turn_off_disable
  \/ BUZZER_turn_off_pin
  \/ BUZZER_turn_off_flag
  \/ \E set_note \in 0..(Len(note) - 1) : BUZZER_set_note(set_note)
  \/ TIM5_update
  \/ TIM5_IRQHandler

SpecBuzzer == BuzzerInit /\ [][BuzzerNext]_vars

(***************************************************************************)
(* The main loop (calculations.c, lines 565-726), one iteration per step.  *)
(* TS_State is the touch the controller reports, pressed the answer of     *)
(* PB_pressed, frame the samples of the frame if one is ready.             *)
(***************************************************************************)
\* MENU_check_transition as a function of the touch: the statics after it
MENU_checked(TS_State) ==
  IF TS_State.TouchDetected /\ MENU_NONE = MENU_transition
  THEN LET new == TouchedItem(TS_State)
           old == item_new
       IN  IF new = old
           THEN [ item_old |-> old, item_new |-> MENU_NONE,
                  MENU_transition |-> old ]
           ELSE [ item_old |-> old, item_new |-> new,
                  MENU_transition |-> MENU_transition ]
  ELSE [ item_old |-> item_old, item_new |-> item_new,
         MENU_transition |-> MENU_transition ]

\* variant: a title or screen touch counts from the first idle poll on
main_choice_NoDelay(item) ==
  LET next(v, max) == IF v + 1 > max THEN 1 ELSE v + 1
      same == [ task |-> task, subtask |-> subtask,
                table_cable |-> table_cable,
                responsive_counter |-> responsive_counter ]
  IN  CASE item = MENU_NONE ->
             [ same EXCEPT !.responsive_counter =
                             IF responsive_counter < 10 THEN @ + 1 ELSE @ ]
        [] item = MENU_SINGLE -> [ same EXCEPT !.task = SINGLE_MEAS ]
        [] item = MENU_MULTI -> [ same EXCEPT !.task = AVERAGE_MEAS ]
        [] item = MENU_CABLE ->
             IF task # NOTHING
             THEN [ same EXCEPT
                      !.table_cable = IF responsive_counter > 0
                                      THEN next(@, MAX_TABLES) ELSE @,
                      !.responsive_counter = 0 ]
             ELSE same
        [] item = MENU_SUBTASK ->
             IF task # NOTHING
             THEN [ same EXCEPT
                      !.subtask = IF responsive_counter > 0
                                  THEN next(@, MAX_SUBTASKS) ELSE @,
                      !.responsive_counter = 0 ]
             ELSE same
        [] OTHER -> same

\* switch (MENU_get_transition()), lines 571-616: the locals after it
main_choice(item) ==
  LET next(v, max) == IF v + 1 > max THEN 1 ELSE v + 1
      same == [ task |-> task, subtask |-> subtask,
                table_cable |-> table_cable,
                responsive_counter |-> responsive_counter ]
  IN  CASE item = MENU_NONE ->
             [ same EXCEPT !.responsive_counter =
                             IF responsive_counter < 10 THEN @ + 1 ELSE @ ]
        [] item = MENU_SINGLE -> [ same EXCEPT !.task = SINGLE_MEAS ]
        [] item = MENU_MULTI -> [ same EXCEPT !.task = AVERAGE_MEAS ]
        [] item = MENU_CABLE ->
             IF task # NOTHING
             THEN [ same EXCEPT
                      !.table_cable = IF responsive_counter > 2
                                      THEN next(@, MAX_TABLES) ELSE @,
                      !.responsive_counter = 0 ]
             ELSE same
        [] item = MENU_SUBTASK ->
             IF task # NOTHING
             THEN [ same EXCEPT
                      !.subtask = IF responsive_counter > 2
                                  THEN next(@, MAX_SUBTASKS) ELSE @,
                      !.responsive_counter = 0 ]
             ELSE same
        [] OTHER -> same

\* the title main prints after a change of the settings (lines 628-642)
main_title(s) ==
  IF s.task = SINGLE_MEAS /\ s.table_cable = TABLE_ONE_PHASE
  THEN Take("SINGLE: ONE PHASE", 17)
  ELSE IF s.task = AVERAGE_MEAS /\ s.table_cable = TABLE_ONE_PHASE
  THEN Take("AVERAGE: ONE PHASE", 18)
  ELSE lcd.title

\* variant: the two measurement modes call calculate_pos the other way round
main_window_Swapped(s) == IF s.task = SINGLE_MEAS THEN 3 ELSE 1

\* the window size main passes to calculate_pos (lines 667, 680)
main_window(s) == IF s.task = SINGLE_MEAS THEN 1 ELSE 3

\* variant: the distance is passed on without the division
main_note_Unscaled(y_distance) == (MAX_DISTANCE - y_distance) % 256

\* (MAX_DISTANCE - y_distance) / 10 as the uint8_t BUZZER_set_note receives
main_note(y_distance) ==
  LET d == MAX_DISTANCE - y_distance
      q == IF d >= 0 THEN d \div 10 ELSE -((-d) \div 10)
  IN  q % 256

\* the prescalers BUZZER_set_note can compute: a read past the end of note
\* yields whatever follows the table
NotePrescalers(set_note) ==
  IF set_note < Len(note)
  THEN { NotePrescaler(set_note) }
  ELSE { NotePrescaler(k) : k \in 0..(Len(note) - 1) } \cup { 0 }

\* variant: the range sentinels do not silence the buzzer
main_buzzer_on_IgnoresRange(blue, x_distance, y_distance) == blue

\* the condition of line 710
main_buzzer_on(blue, x_distance, y_distance) ==
  /\ blue
  /\ x_distance # CALC_OUTOF_X_RANGE
  /\ y_distance # CALC_OUTOF_Y_RANGE

\* lines 710-722: the buzzer's <<flag_buzzer, TIM5_CEN, PA5>> afterwards
main_buzzer(on) ==
  IF on
  THEN IF ~flag_buzzer
       THEN << TRUE, TRUE, PA5 >>
       ELSE << flag_buzzer, TIM5_CEN, PA5 >>
  ELSE IF flag_buzzer
       THEN << FALSE, FALSE, FALSE >>
       ELSE << flag_buzzer, TIM5_CEN, PA5 >>

\* MENU_values_act or MENU_visual_act on the screen scr (lines 693-703)
main_display(s, scr, x_distance, y_distance, angle, cur) ==
  IF s.subtask = SUB_VALUES
  THEN LET v == MENU_values_act(x_distance, y_distance % 65536, angle, cur)
       IN  << [ scr EXCEPT
                  !.shown = @ \cup { "values" },
                  !.text_x_distance = v.text_x_distance,
                  !.text_y_distance = v.text_y_distance,
                  !.text_abs_distance = v.text_abs_distance,
                  !.text_angle = v.text_angle,
                  !.text_current = v.text_current ],
              x_circle_old, y_circle_old >>
  ELSE LET v == MENU_visual_act(x_distance, y_distance % 65536, cur)
       IN  << [ scr EXCEPT
                  !.shown = @ \cup { "visual" },
                  !.text_position = v[1].text_position,
                  !.visual_current = v[1].visual_current ],
              v[2], v[3] >>

\* the record of the iteration that delivered item
main_log(item, called, set_note) ==
  [ item |-> item,
    confirmed |-> IF item \in 0..(MENU_ENTRY_COUNT - 1)
                  THEN MENU_entry[item + 1] ELSE "",
    called |-> called,
    set_note |-> set_note,
    polls |-> IF item \in { MENU_CABLE, MENU_SUBTASK } THEN 0
              ELSE IF item = MENU_NONE /\ mlog.polls < MaxPolls
              THEN mlog.polls + 1 ELSE mlog.polls,
    handled |-> IF item \in { MENU_CABLE, MENU_SUBTASK } /\ task # NOTHING
                THEN 0
                ELSE IF item = MENU_NONE /\ mlog.handled < MaxPolls
                THEN mlog.handled + 1 ELSE mlog.handled ]

\* case NOTHING (lines 656-663): BUZZER_play_melody plays thirteen notes,
\* the last one note[21], and leaves the buzzer off
main_idle(item, pressed) ==
  /\ IF pressed
     THEN /\ tim_prescaler' = F_CLK \div ((note[22] * (TIM_TOP + 1)) \div 2)
          /\ flag_buzzer' = FALSE
          /\ TIM5_CEN' = FALSE
          /\ PA5' = FALSE
          /\ flag_piezo' \in BOOLEAN
          /\ TIM5_UIF' \in BOOLEAN
     ELSE UNCHANGED << tim_prescaler, flag_buzzer, TIM5_CEN, PA5, flag_piezo,
                       TIM5_UIF >>
  /\ mlog' = main_log(item, 0, -1)
  /\ UNCHANGED << MEAS_data_ready, LPAD_FFT_avg_array, RPAD_FFT_avg_array,
                  LHALL_FFT_avg_array, RHALL_FFT_avg_array,
                  LPAD_FFT_distance, RPAD_FFT_distance, LHALL_FFT_voltage,
                  RHALL_FFT_voltage, X_Pos, Y_Pos, Gamma, current,
                  avg_counter, num_of_samples, libm, pass, LPAD_samples,
                  RPAD_samples, LHALL_samples, RHALL_samples, trace, lcd,
                  x_circle_old, y_circle_old, flag_blue_btn,
                  main_x_distance, main_y_distance, main_angle,
                  main_current >>

\* lines 670-720 once calculate_pos has left the context c: the getters,
\* reset_sample_counter, the display, the pushbutton and the buzzer
main_feedback(item, s, change, pressed, c) ==
  LET x_distance == c.X_Pos
      y_distance == c.Y_Pos
      \* MENU_values_init, MENU_visual_init: the data area is cleared
      \* and the title is printed (lines 646-651)
      scr == IF change THEN [ NoText EXCEPT !.title = main_title(s) ]
             ELSE lcd
      shown == main_display(s, scr, x_distance, y_distance, c.Gamma,
                            c.current)
      blue == IF pressed THEN ~flag_blue_btn ELSE flag_blue_btn
      on == main_buzzer_on(blue, x_distance, y_distance)
  IN  /\ main_x_distance' = x_distance
      /\ main_y_distance' = y_distance
      /\ main_angle' = c.Gamma
      /\ main_current' = c.current
      /\ MEAS_data_ready' = FALSE
      /\ lcd' = shown[1]
      /\ x_circle_old' = shown[2]
      /\ y_circle_old' = shown[3]
      /\ flag_blue_btn' = blue
      /\ flag_buzzer' = main_buzzer(on)[1]
      /\ TIM5_CEN' = main_buzzer(on)[2]
      /\ PA5' = main_buzzer(on)[3]
      /\ IF on
         THEN tim_prescaler' \in NotePrescalers(main_note(y_distance))
         ELSE UNCHANGED tim_prescaler
      /\ mlog' = main_log(item, main_window(s),
                          IF on THEN main_note(y_distance) ELSE -1)
      /\ UNCHANGED << flag_piezo, TIM5_UIF >>

\* cases SINGLE_MEAS and AVERAGE_MEAS (lines 666-690) and lines 692-722
main_measure(item, s, change, pressed, frame) ==
  LET c0 == [ Ctx EXCEPT !.num_of_samples = main_window(s) ]
  IN  IF MEAS_data_ready
      THEN /\ avg_counter <= MaxAvgCounter
           /\ \E b \in { split_Array(Buffers, frame) } :
                /\ PublishBuffers(clear_Buffer(b))
                /\ \E cf \in { calculate_FFT(c0, Tones(b)) } :
                     \E r \in Roundings(cf.LPAD_FFT_distance,
                                        cf.RPAD_FFT_distance) :
                       /\ Rounded(cf.LPAD_FFT_distance,
                                  cf.RPAD_FFT_distance, r)
                       /\ \E c \in { calculate_pos_ready(c0, Tones(b), r) } :
                            /\ Publish(c)
                            /\ main_feedback(item, s, change, pressed, c)
      ELSE /\ Publish(c0)
           /\ main_feedback(item, s, change, pressed, c0)
           /\ UNCHANGED << libm, LPAD_samples, RPAD_samples, LHALL_samples,
                           RHALL_samples, trace >>

main_loop(TS_State, pressed, frame) ==
  /\ bpc = "main"
  /\ \E m \in { MENU_checked(TS_State) } :
     LET item   == m.MENU_transition
         s      == main_choice(item)
         change == \/ s.task # task
                   \/ s.subtask # subtask
                   \/ s.table_cable # table_cable
     IN  /\ item_old' = m.item_old
         /\ item_new' = m.item_new
         /\ MENU_transition' = MENU_NONE
         /\ task' = s.task
         /\ subtask' = s.subtask
         /\ table_cable' = s.table_cable
         /\ responsive_counter' = s.responsive_counter
         /\ IF s.task = NOTHING
            THEN main_idle(item, pressed)
            ELSE main_measure(item, s, change, pressed, frame)
  /\ UNCHANGED << layout, scene, mirror, ADC_samples, mcall, passVars, bpc >>

\* the touches a specification of the main loop draws from: none, the two
\* menu entries, the title and the screen
MainTouches ==
  { NoTouch }
    \cup { [ TouchDetected |-> TRUE, X |-> x, Y |-> y ] :
             x \in { 0, 239 }, y \in { 20, 150, 300 } }

\* the touches on the menu bar only
EntryTouches ==
  { NoTouch }
    \cup { [ TouchDetected |-> TRUE, X |-> x, Y |-> 300 ] : x \in { 0, 239 } }

\* the user at the touchscreen and the pushbutton; no frame completes
MainInit ==
  /\ Statics
  /\ layout = "apart"
  /\ scene = {}
  /\ LPAD_FFT_distance = 0
  /\ RPAD_FFT_distance = 0

MainNext ==
  \/ \E TS_State \in MainTouches, pressed \in BOOLEAN :
       main_loop(TS_State, pressed, ADC_samples)
  \/ TIM5_update
  \/ TIM5_IRQHandler

SpecMain == MainInit /\ [][MainNext]_vars

\* the measurement running: frames complete, the user selects a mode and
\* from then on works the pushbutton only
MeasScenes ==
  { { ToneCentre }, { ToneOffset }, { ToneFarX }, { ToneEdge },
    { ToneBeyond } }

MeasInit ==
  /\ Statics
  /\ layout \in { "apart" }
  /\ scene \in MeasScenes
  /\ LPAD_FFT_distance = 0
  /\ RPAD_FFT_distance = 0

MeasNext ==
  \/ MEAS_frame_complete
  \/ \E TS_State \in EntryTouches, pressed \in BOOLEAN, tone \in scene :
       /\ task # NOTHING => TS_State = NoTouch
       /\ main_loop(TS_State, pressed, FrameOf(tone))

SpecMeas == MeasInit /\ [][MeasNext]_vars

(***************************************************************************)
(* Properties                                                              *)
(***************************************************************************)
\* a step that is a calculate_pos call on a ready frame
PassStep == MEAS_data_ready /\ MEAS_data_ready' /\ pass'.ready

CurrentTags == { << CURR_OUTOF_Y_RANGE, 1 >>, << CURR_OUTOF_Angle_RANGE, 1 >> }

Downstream ==
  { "distance_LUT", "solver", "calculate_current",
    "check_display_bounderies" }

\* C1: after a pass over a ready frame, whenever get_current is neither
\* current-error tag, Y lies strictly between 15 and 25 and Gamma strictly
\* between -15 and 15.
C1_NumericCurrentImpliesRange ==
  (pass.ready /\ get_current \notin CurrentTags)
    => (get_Y_Pos > 15 /\ get_Y_Pos < 25 /\ Gamma > -15 /\ Gamma < 15)

\* C2 as stated: when the cosine check of a pass fails, X, Y and the angle
\* after the call equal their values before the call.
C2_RangeFailureRetainsPrior ==
  [][ (PassStep /\ pass'.solver = "range")
        => (X_Pos' = X_Pos /\ Y_Pos' = Y_Pos /\ Gamma' = Gamma) ]_vars

\* C2 amended: when the cosine check of a pass fails, X, Y and the angle
\* hold their range sentinels 2333, 2222 and 2444 after the call.
C2_RangeFailureGivesSentinels ==
  (pass.ready /\ pass.solver = "range")
    => /\ get_X_Pos = CALC_OUTOF_X_RANGE
       /\ get_Y_Pos = CALC_OUTOF_Y_RANGE
       /\ get_angle = CALC_OUTOF_ANGLE_RANGE

\* C2 witness: a pass failed the cosine check on two positive distances
C2_Witness ==
  /\ pass.ready
  /\ pass.solver = "range"
  /\ LPAD_FFT_distance > 0
  /\ RPAD_FFT_distance > 0
  /\ get_X_Pos = CALC_OUTOF_X_RANGE

\* C3: a pass that does not complete the averaging window leaves
\* get_X_Pos, get_Y_Pos, get_angle and get_current unchanged.
C3_PartialWindowKeepsEstimates ==
  [][ (PassStep /\ ~pass'.filled)
        => /\ get_X_Pos' = get_X_Pos
           /\ get_Y_Pos' = get_Y_Pos
           /\ get_angle' = get_angle
           /\ get_current' = get_current ]_vars

\* C4 as stated: a pass that does not complete the averaging window runs
\* none of the downstream stages.
C4_PartialWindowRunsNoStage ==
  (pass.ready /\ ~pass.filled) => pass.stages \cap Downstream = {}

\* C4 amended: a pass that does not complete the averaging window advances
\* the fill index by one and skips only the averaging and the calibration
\* lookup; the solver runs on the distances at hand unless both are the
\* no-signal sentinel, and the current estimator and the boundary check run
\* exactly when its cosine check passes.
C4_PartialWindowSkipsOnlyLookup ==
  [][ (PassStep /\ ~pass'.filled)
        => /\ avg_counter' = avg_counter + 1
           /\ "average" \notin pass'.stages
           /\ "distance_LUT" \notin pass'.stages
           /\ ("solver" \in pass'.stages)
                <=> SolverRuns(LPAD_FFT_distance', RPAD_FFT_distance')
           /\ ("calculate_current" \in pass'.stages)
                <=> (/\ SolverRuns(LPAD_FFT_distance', RPAD_FFT_distance')
                     /\ SolverInRange(LPAD_FFT_distance', RPAD_FFT_distance'))
           /\ ("check_display_bounderies" \in pass'.stages)
                <=> ("calculate_current" \in pass'.stages) ]_vars

\* C4 witness: a pass that did not complete the window ran the solver, the
\* current estimator and the boundary check
C4_Witness ==
  /\ pass.ready
  /\ ~pass.filled
  /\ { "solver", "calculate_current", "check_display_bounderies" }
       \subseteq pass.stages

\* C5: a pass entered with the fill index below W-1 advances the index by
\* one; a pass entered with the index at W-1 publishes, for each of the four
\* channels, the sum of the W stored readings divided by W with truncation,
\* resets the index to 0 and runs the calibration lookup on the two pad
\* averages.  In both cases the readings of the frame are stored in the slot
\* at the fill index and the other slots keep their readings.
C5_WindowAveraging ==
  [][ (PassStep /\ avg_counter <= num_of_samples' - 1)
        => LET w == num_of_samples'
               i == avg_counter + 1
           IN  /\ \E tone \in scene :
                    << LPAD_FFT_avg_array'[i], RPAD_FFT_avg_array'[i],
                       LHALL_FFT_avg_array'[i], RHALL_FFT_avg_array'[i] >>
                      = tone
               /\ \A j \in (1..FFT_AVG_NUMS) \ { i } :
                    /\ LPAD_FFT_avg_array'[j] = LPAD_FFT_avg_array[j]
                    /\ RPAD_FFT_avg_array'[j] = RPAD_FFT_avg_array[j]
                    /\ LHALL_FFT_avg_array'[j] = LHALL_FFT_avg_array[j]
                    /\ RHALL_FFT_avg_array'[j] = RHALL_FFT_avg_array[j]
               /\ IF avg_counter = w - 1
                  THEN /\ pass'.filled
                       /\ avg_counter' = 0
                       /\ pass'.avg =
                            << SumSlots(LPAD_FFT_avg_array', w) \div w,
                               SumSlots(RPAD_FFT_avg_array', w) \div w,
                               SumSlots(LHALL_FFT_avg_array', w) \div w,
                               SumSlots(RHALL_FFT_avg_array', w) \div w >>
                       /\ LHALL_FFT_voltage' = pass'.avg[3]
                       /\ RHALL_FFT_voltage' = pass'.avg[4]
                       /\ "distance_LUT" \in pass'.stages
                       /\ (pass'.avg[1] > LPAD_Min /\ pass'.avg[1] < LPAD_Max)
                            => LPAD_FFT_distance'
                                 = LPAD_LUT(pass'.avg[1] - LPAD_Min)
                       /\ (pass'.avg[2] > RPAD_Min /\ pass'.avg[2] < RPAD_Max)
                            => RPAD_FFT_distance'
                                 = RPAD_LUT(pass'.avg[2] - RPAD_Min)
                  ELSE /\ ~pass'.filled
                       /\ avg_counter' = avg_counter + 1 ]_vars

\* C5 witness: a window of three frames was completed, and the division of
\* the left pad sum by three truncated
C5_Witness ==
  /\ pass.ready
  /\ pass.filled
  /\ num_of_samples = 3
  /\ SumSlots(LPAD_FFT_avg_array, 3) % 3 # 0
  /\ pass.avg[1] = SumSlots(LPAD_FFT_avg_array, 3) \div 3

\* C6: distance_LUT yields table[r - Min] for Min < r < Max, 0 for
\* r >= Max and the no-signal sentinel for r <= Min, on both pads.
C6_LookupCases ==
  pass.stages # {}
    => LET l == pass.avg[1]
           r == pass.avg[2]
       IN  /\ (l > LPAD_Min /\ l < LPAD_Max)
                => LPAD_FFT_distance = LPAD_LUT(l - LPAD_Min)
           /\ l >= LPAD_Max => LPAD_FFT_distance = 0
           /\ l <= LPAD_Min => LPAD_FFT_distance = FFT_NO_SIGNAL
           /\ (r > RPAD_Min /\ r < RPAD_Max)
                => RPAD_FFT_distance = RPAD_LUT(r - RPAD_Min)
           /\ r >= RPAD_Max => RPAD_FFT_distance = 0
           /\ r <= RPAD_Min => RPAD_FFT_distance = FFT_NO_SIGNAL

\* C7: after a successful solve, X > 0 never coincides with Gamma < 0 and
\* X < 0 never coincides with Gamma > 0.
C7_SameSideConvention ==
  pass.solver = "ok"
    => /\ ~(get_X_Pos > 0 /\ Gamma < 0)
       /\ ~(get_X_Pos < 0 /\ Gamma > 0)

\* C8: after a successful solve, dL < dR gives X >= 0 and dR < dL gives
\* X <= 0.
C8_NearerPadGivesSide ==
  pass.solver = "ok"
    => /\ LPAD_FFT_distance < RPAD_FFT_distance => get_X_Pos >= 0
       /\ RPAD_FFT_distance < LPAD_FFT_distance => get_X_Pos <= 0

\* C9: when the distances (a,b) and the mirrored distances (b,a) both solve,
\* the two X are opposite, the two Gamma are opposite and Y is the same.
C9_MirrorSymmetry ==
  (mirror.set /\ mirror.ok /\ pass.solver = "ok")
    => /\ get_X_Pos = -mirror.X
       /\ get_angle = -mirror.Gamma
       /\ get_Y_Pos = mirror.Y

\* C10: between calls get_X_Pos is the X-range sentinel or within
\* -100..100 and get_Y_Pos is the Y-range sentinel or at most 200; after a
\* successful solve X is its sentinel exactly when the solved |X| exceeds
\* 100, Y is its sentinel exactly when the solved Y exceeds 200, each field
\* otherwise keeps its solved value, and Gamma is the solved Gamma.
C10_DisplayBoundaries ==
  /\ get_X_Pos = CALC_OUTOF_X_RANGE
       \/ (get_X_Pos >= -MAX_X_DISTANCE /\ get_X_Pos <= MAX_X_DISTANCE)
  /\ get_Y_Pos = CALC_OUTOF_Y_RANGE \/ get_Y_Pos <= MAX_Y_DISTANCE
  /\ pass.solver = "ok"
       => /\ get_X_Pos = IF Abs(pass.raw[1]) > MAX_X_DISTANCE
                         THEN CALC_OUTOF_X_RANGE ELSE pass.raw[1]
          /\ get_Y_Pos = IF pass.raw[2] > MAX_Y_DISTANCE
                         THEN CALC_OUTOF_Y_RANGE ELSE pass.raw[2]
          /\ Gamma = pass.raw[3]

\* C10 witness: a solve gave |X| above 100 and Y within range; X is the
\* sentinel and Y the solved value
C10_Witness ==
  /\ pass.ready
  /\ pass.solver = "ok"
  /\ Abs(pass.raw[1]) > MAX_X_DISTANCE
  /\ pass.raw[2] <= MAX_Y_DISTANCE
  /\ get_X_Pos = CALC_OUTOF_X_RANGE
  /\ get_Y_Pos = pass.raw[2]

\* a solve gave Y above 200 and |X| within range
C10_WitnessY ==
  /\ pass.ready
  /\ pass.solver = "ok"
  /\ pass.raw[2] > MAX_Y_DISTANCE
  /\ get_Y_Pos = CALC_OUTOF_Y_RANGE
  /\ get_X_Pos = pass.raw[1]

\* C11: calculate_current stores the Y-range tag 4444 whenever Y <= 15 or
\* Y >= 25, whatever Gamma is; the angle-range tag 4555 when Y is in (15,25)
\* and Gamma <= -15 or Gamma >= 15; and otherwise the larger Hall voltage
\* times 0.357 times Y over 1000, which is 0.714 for Hall voltages 100 and
\* 50, Y = 20 and Gamma = 0.
C11_CurrentCases ==
  pass.stages = { "calculate_current" }
    => LET hall == IF RHALL_FFT_voltage > LHALL_FFT_voltage
                   THEN RHALL_FFT_voltage ELSE LHALL_FFT_voltage
       IN  /\ (Y_Pos <= 15 \/ Y_Pos >= 25)
                => get_current = << CURR_OUTOF_Y_RANGE, 1 >>
           /\ (Y_Pos > 15 /\ Y_Pos < 25 /\ (Gamma <= -15 \/ Gamma >= 15))
                => get_current = << CURR_OUTOF_Angle_RANGE, 1 >>
           /\ (Y_Pos > 15 /\ Y_Pos < 25 /\ Gamma > -15 /\ Gamma < 15)
                => get_current
                     = << hall * CURRENT_FACTOR_MILLI * Y_Pos, 1000000 >>
           /\ (LHALL_FFT_voltage = 100 /\ RHALL_FFT_voltage = 50
                 /\ Y_Pos = 20 /\ Gamma = 0)
                => get_current[1] * 1000 = 714 * get_current[2]

\* C11 witness: Y = 30 with Gamma = 20 got the Y-range tag
C11_Witness ==
  /\ pass.stages = { "calculate_current" }
  /\ Y_Pos = 30
  /\ Gamma = 20
  /\ get_current = << CURR_OUTOF_Y_RANGE, 1 >>

\* the current estimator returned 0.714
C11_WitnessValue ==
  /\ pass.stages = { "calculate_current" }
  /\ LHALL_FFT_voltage = 100
  /\ RHALL_FFT_voltage = 50
  /\ Y_Pos = 20
  /\ Gamma = 0
  /\ get_current = << 714000, 1000000 >>

\* C12: a pass over a ready frame ends with X, Y and the angle all
\* non-sentinel only if neither pad distance is the no-signal sentinel 1111
\* or the saturated value 0 and both cosines lie in (-1,1].
C12_ValidOnlyIfUsable ==
  (/\ pass.ready
   /\ get_X_Pos # CALC_OUTOF_X_RANGE
   /\ get_Y_Pos # CALC_OUTOF_Y_RANGE
   /\ get_angle # CALC_OUTOF_ANGLE_RANGE)
    => LET dL == LPAD_FFT_distance
           dR == RPAD_FFT_distance
           s2 == PAD_SPACING * PAD_SPACING
       IN  /\ dL \notin { 0, FFT_NO_SIGNAL }
           /\ dR \notin { 0, FFT_NO_SIGNAL }
           /\ dL > 0 /\ dR > 0
           /\ dL * dL + s2 - dR * dR <= 2 * dL * PAD_SPACING
           /\ dL * dL + s2 - dR * dR > -(2 * dL * PAD_SPACING)
           /\ dR * dR - dL * dL + s2 <= 2 * dR * PAD_SPACING
           /\ dR * dR - dL * dL + s2 > -(2 * dR * PAD_SPACING)

\* C12 witness: a pass ended with a numeric X, Y and angle
C12_Witness ==
  /\ pass.ready
  /\ pass.solver = "ok"
  /\ LPAD_FFT_distance = 30
  /\ RPAD_FFT_distance = 40
  /\ get_X_Pos = -7
  /\ get_Y_Pos \in { 23, 24 }
  /\ get_angle # CALC_OUTOF_ANGLE_RANGE

\* C13: for positive pad distances whose cosines pass the range check,
\* exactly one of the three geometric cases applies (1 between the pads when
\* both cosines are positive, 2 left of the device when only cos(beta) is,
\* 3 right of the device when only cos(alpha) is); the combination of two
\* angles of 90 degrees or more never occurs, so X and Y are assigned by a
\* case branch before Gamma is computed.
C13_OneGeometricCase ==
  pass.solver = "ok"
    => LET dL == LPAD_FFT_distance
           dR == RPAD_FFT_distance
           a  == dR * dR - dL * dL + PAD_SPACING * PAD_SPACING > 0
           b  == dL * dL + PAD_SPACING * PAD_SPACING - dR * dR > 0
       IN  /\ a \/ b
           /\ pass.geo = (IF a /\ b THEN 1 ELSE IF b THEN 2 ELSE 3)
           /\ Abs(pass.raw[1]) # CALC_OUTOF_X_RANGE
           /\ pass.raw[2] # CALC_OUTOF_Y_RANGE

\* C13 witness: a solve with the cable left of the device (alpha obtuse)
C13_Witness ==
  /\ pass.solver = "ok"
  /\ pass.geo = 2
  /\ LPAD_FFT_distance = 60
  /\ RPAD_FFT_distance = 20

\* a solve with the cable right of the device (beta obtuse)
C13_WitnessRight ==
  /\ pass.solver = "ok"
  /\ pass.geo = 3
  /\ LPAD_FFT_distance = 20
  /\ RPAD_FFT_distance = 60

\* C14: for equal pad distances dL = dR = d with d > 25 the solve succeeds
\* with X = 0, Gamma = 0 and Y the integer truncation of sqrt(d^2 - 25^2);
\* for d = 50, Y = 43.
C14_EqualDistances ==
  (/\ pass.ready
   /\ LPAD_FFT_distance = RPAD_FFT_distance
   /\ LPAD_FFT_distance > PAD_SPACING \div 2
   /\ LPAD_FFT_distance # FFT_NO_SIGNAL)
    => LET d == LPAD_FFT_distance
           h == PAD_SPACING \div 2
       IN  /\ pass.solver = "ok"
           /\ pass.raw[1] = 0
           /\ pass.raw[3] = 0
           /\ pass.raw[2] = Isqrt(d * d - h * h)
           /\ d = 50 => pass.raw[2] = 43

\* C15: whenever the X, Y, angle or current argument of MENU_values_act or
\* MENU_visual_act equals its error code, the text of that field, and of the
\* absolute distance when X or Y is an error code, is the NaNs indicator.
C15_SentinelShownAsNaNs ==
  LET tags == { << CURR_OUTOF_Y_RANGE, 1 >>, << CURR_OUTOF_Angle_RANGE, 1 >> }
      nan(text) == Len(text) >= 4 /\ SubSeq(text, 1, 4) = "NaNs"
      xy == X_Pos = CALC_OUTOF_X_RANGE \/ Y_Pos = CALC_OUTOF_Y_RANGE
  IN  /\ "values" \in lcd.shown
           => /\ X_Pos = CALC_OUTOF_X_RANGE => lcd.text_x_distance = "NaNs"
              /\ Y_Pos = CALC_OUTOF_Y_RANGE => lcd.text_y_distance = "NaNs"
              /\ xy => lcd.text_abs_distance = "NaNs"
              /\ Gamma = CALC_OUTOF_ANGLE_RANGE => lcd.text_angle = "NaNs"
              /\ current \in tags => lcd.text_current = "NaNs"
      /\ "visual" \in lcd.shown
           => /\ xy => nan(lcd.text_position)
              /\ current \in tags => nan(lcd.visual_current)

\* C15 witness: both screens were shown for a Y error code with a numeric X
\* and the angle-range tag as current
C15_Witness ==
  /\ lcd.shown = { "values", "visual" }
  /\ X_Pos = -7
  /\ Y_Pos = CALC_OUTOF_Y_RANGE
  /\ current = << CURR_OUTOF_Angle_RANGE, 1 >>
  /\ lcd.text_x_distance = "  -7"
  /\ lcd.text_y_distance = "NaNs"
  /\ lcd.text_abs_distance = "NaNs"
  /\ lcd.text_position = "NaNs mm"
  /\ lcd.visual_current = "NaNs A"

\* numeric values are formatted
C15_WitnessNumeric ==
  /\ lcd.shown = { "values", "visual" }
  /\ X_Pos = -7
  /\ Y_Pos = 19
  /\ Gamma = 16
  /\ current = << 714000, 1000000 >>
  /\ lcd.text_abs_distance = "  20"
  /\ lcd.text_angle = "  16"
  /\ lcd.text_current = " 0.7"
  /\ lcd.text_position = "  20 mm"
  /\ lcd.visual_current = " 0.7 A"
  /\ x_circle_old = 113
  /\ y_circle_old = 201

\* C16: after every pass over a ready frame every element of the four
\* channel sample buffers is zero.
C16_BuffersClearedAfterPass ==
  pass.ready
    => \A j \in 1..ADC_NUMS :
         /\ LPAD_samples[j] = 0
         /\ RPAD_samples[j] = 0
         /\ LHALL_samples[j] = 0
         /\ RHALL_samples[j] = 0

\* C16 witness: a pass split a frame with non-zero samples in all four
\* channels (its readings are in slot 0), and the buffers are zero
C16_Witness ==
  /\ pass.ready
  /\ { "split_Array", "clear_Buffer" } \subseteq pass.stages
  /\ Len(trace[1]) = ADC_NUMS
  /\ LPAD_FFT_avg_array[1] = 1333
  /\ RPAD_FFT_avg_array[1] = 1341
  /\ LHALL_FFT_avg_array[1] = 100
  /\ RHALL_FFT_avg_array[1] = 50
  /\ LPAD_samples = NoSamples
  /\ RHALL_samples = NoSamples

\* C17: a calculate_pos call made while the frame-ready flag is false
\* changes none of X, Y, the angle, the current, the accumulator slots, the
\* fill index, the averaged readings and the channel buffers.
C17_IdleCallChangesNothing ==
  [][ (~MEAS_data_ready /\ ~MEAS_data_ready')
        => UNCHANGED << X_Pos, Y_Pos, Gamma, current, LPAD_FFT_avg_array,
                        RPAD_FFT_avg_array, LHALL_FFT_avg_array,
                        RHALL_FFT_avg_array, avg_counter, LPAD_FFT_distance,
                        RPAD_FFT_distance, LHALL_FFT_voltage,
                        RHALL_FFT_voltage, LPAD_samples, RPAD_samples,
                        LHALL_samples, RHALL_samples >> ]_vars

\* C17 witness: calculate_pos(3) was called without a ready frame after a
\* pass had published a position and half-filled the window
C17_Witness ==
  /\ ~MEAS_data_ready
  /\ pass = NoPass
  /\ num_of_samples = 3
  /\ avg_counter = 1
  /\ Y_Pos = 19
  /\ LPAD_FFT_avg_array[1] = 1333

\* C19: split_Array copies raw sample 4*j + k into element j of channel
\* k's buffer for every j in 0..ADC_NUMS-1 and k in 0..3 (0 left pad, 1 right
\* pad, 2 left Hall, 3 right Hall); every raw sample index is read exactly
\* once and every buffer element is written exactly once.
C19_SplitStride ==
  pc = "split_Array"
    => LET buffer == << LPAD_samples, RPAD_samples, LHALL_samples,
                        RHALL_samples >>
           copies == { << k, n >> \in (1..4) \X (1..(4 * ADC_NUMS)) :
                         n <= Len(trace[k]) }
       IN  /\ \A j \in 0..(ADC_NUMS - 1), k \in 0..3 :
                buffer[k + 1][j + 1] = ADC_samples[4 * j + k + 1]
           /\ \A i \in 0..(4 * ADC_NUMS - 1) :
                Cardinality({ c \in copies : trace[c[1]][c[2]][1] = i }) = 1
           /\ \A k \in 1..4, j \in 0..(ADC_NUMS - 1) :
                Cardinality({ c \in copies :
                              c[1] = k /\ trace[k][c[2]][2] = j }) = 1

\* C19 witness: the frame 7, 10, 13, ... was split; element 1 of the right
\* pad buffer holds raw sample 5
C19_Witness ==
  /\ pc = "split_Array"
  /\ ADC_samples = Ramp(3, 7)
  /\ RPAD_samples[2] = 22
  /\ LHALL_samples[ADC_NUMS] = 3 * (4 * (ADC_NUMS - 1) + 2) + 7

\* C20: MENU_get_transition returns the pending menu item and clears the
\* flag to MENU_NONE; every registered transition is delivered by exactly one
\* call, and a call that follows another call without a registration in
\* between returns MENU_NONE.
C20_TransitionDeliveredOnce ==
  /\ [][ mcall'.op = "get"
           => /\ mcall'.item = MENU_transition
              /\ MENU_transition' = MENU_NONE
              /\ mcall.op = "get" => mcall'.item = MENU_NONE ]_vars
  /\ [](mcall.registered
          = mcall.delivered + (IF MENU_transition # MENU_NONE THEN 1 ELSE 0))

\* C20 witness: two transitions were registered, both were delivered, and
\* the call after the last delivery returned MENU_NONE
C20_Witness ==
  /\ mcall.op = "get"
  /\ mcall.registered = 2
  /\ mcall.delivered = 2
  /\ mcall.item = MENU_NONE
  /\ MENU_transition = MENU_NONE

C21_RegistersOnConfirmedTouch ==
  [][ mcall'.op = "check"
        => /\ MENU_transition # MENU_NONE
               => MENU_transition' = MENU_transition
           /\ MENU_transition' # MENU_transition
               => /\ MENU_transition = MENU_NONE
                  /\ mcall'.detected
                  /\ mcall'.touched
                       = << MENU_transition', MENU_transition' >>
           /\ ~mcall'.detected
               => UNCHANGED << MENU_transition, item_old, item_new >> ]_vars

\* C21 witness: the second of two touches on the title registered MENU_CABLE
C21_Witness ==
  /\ mcall.op = "check"
  /\ mcall.detected
  /\ mcall.touched = << MENU_CABLE, MENU_CABLE >>
  /\ MENU_transition = MENU_CABLE
  /\ item_new = MENU_NONE

\* C21 witness: a touch arrived while a transition was pending
C21_WitnessPending ==
  /\ mcall.op = "check"
  /\ mcall.detected
  /\ MENU_transition = MENU_SINGLE
  /\ mcall.touched = << MENU_SINGLE, MENU_MULTI >>

\* C22: whatever window sizes the calls use, the fill index stays within
\* 0..2, so every store into the four accumulator arrays is in bounds.
C22_FillIndexInBounds == avg_counter \in 0..(FFT_AVG_NUMS - 1)

C24_WitnessBeyond ==
  /\ pass.ready
  /\ LPAD_FFT_distance = FFT_NO_SIGNAL
  /\ RPAD_FFT_distance > 1061
  /\ pass.solver = "ok"

C25_WitnessInitial ==
  /\ pass.ready
  /\ ~pass.filled
  /\ LPAD_FFT_distance = 0
  /\ RPAD_FFT_distance = 0
  /\ pass.solver = "range"

\* C26: TIM5_IRQHandler runs only while flag_buzzer() is true, and
\* whenever the status is false outside BUZZER_turn_on and BUZZER_turn_off
\* the piezo pin PA5 is low.
C26_HandlerOnlyWhileOn ==
  /\ [][ flag_piezo' # flag_piezo => flag_buzzer ]_vars
  /\ []((~flag_buzzer /\ bpc = "main") => ~PA5)

\* C27: after every iteration of the main loop in a measurement mode the
\* buzzer is on exactly when the blue-button flag is set and neither the
\* fetched X is the X-range sentinel nor the fetched Y the Y-range sentinel;
\* in the idle mode the buzzer is off.
C27_BuzzerFollowsButtonAndRange ==
  IF task = NOTHING
  THEN ~flag_buzzer
  ELSE flag_buzzer <=>
         /\ flag_blue_btn
         /\ main_x_distance # CALC_OUTOF_X_RANGE
         /\ main_y_distance # CALC_OUTOF_Y_RANGE

\* a measurement iteration has turned the buzzer on
C27_Witness ==
  /\ task # NOTHING
  /\ mlog.called # 0
  /\ pass.ready
  /\ flag_buzzer
  /\ main_y_distance # 0

\* the flag is set and the X-range sentinel alone keeps the buzzer off
C27_WitnessSilenced ==
  /\ task # NOTHING
  /\ flag_blue_btn
  /\ main_x_distance = CALC_OUTOF_X_RANGE
  /\ main_y_distance # CALC_OUTOF_Y_RANGE
  /\ ~flag_buzzer

\* C28: whenever the main loop calls BUZZER_set_note the index
\* (200 - Y) / 10 is within 0..23, the bounds of note, and so is the index
\* of every Y the pipeline has published without the Y-range sentinel.
C28_NoteIndexInTable ==
  /\ mlog.set_note # -1 => mlog.set_note \in 0..(Len(note) - 1)
  /\ Y_Pos # CALC_OUTOF_Y_RANGE => main_note(Y_Pos) \in 0..(Len(note) - 1)

\* the note for the largest Y the display accepts was set
C28_Witness ==
  /\ mlog.set_note = 0
  /\ main_y_distance = MAX_Y_DISTANCE
  /\ tim_prescaler = NotePrescaler(0)

\* a note for a nearer cable was set
C28_WitnessNear ==
  /\ mlog.set_note = 18
  /\ main_y_distance = 19

\* C29 (as stated): task is idle, single or average and never returns to
\* idle; subtask is 1 or 2 and changes only when more than 2 idle polls
\* were counted since the previous title or screen touch; table_cable is 1;
\* responsive_counter is at most 10; calculate_pos is called with window
\* size 1 or 3 only.
C29_MainLoopInvariants ==
  /\ [](/\ task \in { NOTHING, SINGLE_MEAS, AVERAGE_MEAS }
        /\ subtask \in 1..MAX_SUBTASKS
        /\ table_cable = 1
        /\ responsive_counter <= 10
        /\ mlog.called \in { 0, 1, 3 })
  /\ [][ /\ task # NOTHING => task' # NOTHING
         /\ subtask' # subtask => mlog.polls > 2 ]_vars

\* C29 (amended): the same, with the polls counted since the previous title
\* or screen touch that the loop handled in a measurement mode, or since
\* the start.
C29_MainLoopInvariantsHandled ==
  /\ [](/\ task \in { NOTHING, SINGLE_MEAS, AVERAGE_MEAS }
        /\ subtask \in 1..MAX_SUBTASKS
        /\ table_cable = 1
        /\ responsive_counter <= 10
        /\ mlog.called \in { 0, 1, 3 })
  /\ [][ /\ task # NOTHING => task' # NOTHING
         /\ subtask' # subtask => mlog.handled > 2 ]_vars

\* the subtask was changed by a screen touch in a measurement mode
C29_Witness ==
  /\ mlog.item = MENU_SUBTASK
  /\ subtask = SUB_VALUES
  /\ task = AVERAGE_MEAS
  /\ mlog.called = 3

\* a screen touch came too early and changed nothing
C29_WitnessTooEarly ==
  /\ mlog.item = MENU_SUBTASK
  /\ task # NOTHING
  /\ subtask = SUB_GRAPHIC
  /\ responsive_counter = 0
  /\ lcd.title # ""

\* C30: confirming the entry labelled Average makes the main loop call
\* calculate_pos(3), confirming the entry labelled Single makes it call
\* calculate_pos(1).
C30_EntryStartsItsLabel ==
  /\ mlog.confirmed = "Average" => mlog.called = 3
  /\ mlog.confirmed = "Single" => mlog.called = 1

====
